---------------------------- MODULE Spec2Model ----------------------------
(***************************************************************************)
(* Pirates backend: the construction engine (gameState.js), the temporal   *)
(* fusion filter (dataFusion.js) and the worker's game-state handler with  *)
(* its move journal (worker.js).                                           *)
(*                                                                         *)
(* A string is a sequence of one-character strings, <<"c","a","t">> for    *)
(* "cat".  A letter-count vector is a function 0..LEN-1 -> 0..255, the     *)
(* code's Uint8Array(26).                                                  *)
(***************************************************************************)
EXTENDS Integers, Sequences, FiniteSets, TLC

\* ------------------------------------------------------------------------
\* Bounds of the model
\* ------------------------------------------------------------------------

\* most words in one snapshot handed to processGameState
MaxWords == 2

\* most messages posted to the worker
MaxMessages == 3

\* most HTTP requests handed to runWorker
MaxRequests == 3

\* ------------------------------------------------------------------------
\* Characters
\* ------------------------------------------------------------------------

LEN == 26

MIN_WORD_LENGTH == 3

\* String.fromCharCode(A + i) is Chr[i + 1]
Chr ==
  << "a", "b", "c", "d", "e", "f", "g", "h", "i", "j", "k", "l", "m",
     "n", "o", "p", "q", "r", "s", "t", "u", "v", "w", "x", "y", "z" >>

Upper ==
  << "A", "B", "C", "D", "E", "F", "G", "H", "I", "J", "K", "L", "M",
     "N", "O", "P", "Q", "R", "S", "T", "U", "V", "W", "X", "Y", "Z" >>

LowerChars == { Chr[i] : i \in 1..LEN }

UpperChars == { Upper[i] : i \in 1..LEN }

\* characters that are neither letters nor white space, and white space
OtherChars == { "-", "1" }

SpaceChars == { " " }

Chars == LowerChars \cup UpperChars \cup OtherChars \cup SpaceChars

\* ch.charCodeAt(0) - A for a lowercase letter
OrdTable == [ ch \in LowerChars |-> CHOOSE i \in 0..(LEN - 1) : Chr[i + 1] = ch ]

LowerTable ==
  [ ch \in Chars |->
      IF ch \in UpperChars
        THEN Chr[CHOOSE i \in 1..LEN : Upper[i] = ch]
        ELSE ch ]

\* str.toLowerCase()
toLowerCase(str) == [ k \in 1..Len(str) |-> LowerTable[str[k]] ]

\* str.replace(/[^a-z]/g, '')
stripNonLetters(str) == SelectSeq(str, LAMBDA ch : ch \in LowerChars)

RECURSIVE trimLeft(_)
trimLeft(str) ==
  IF str # << >> /\ Head(str) \in SpaceChars THEN trimLeft(Tail(str)) ELSE str

RECURSIVE trimRight(_)
trimRight(str) ==
  IF str # << >> /\ str[Len(str)] \in SpaceChars
    THEN trimRight(SubSeq(str, 1, Len(str) - 1))
    ELSE str

\* str.trim()
trim(str) == trimRight(trimLeft(str))

\* JavaScript's default string order on lowercase words (used by sort())
RECURSIVE strLess(_, _)
strLess(s, t) ==
  IF t = << >> THEN FALSE
  ELSE IF s = << >> THEN TRUE
  ELSE IF Head(s) = Head(t) THEN strLess(Tail(s), Tail(t))
  ELSE OrdTable[Head(s)] < OrdTable[Head(t)]

\* the elements of a sequence
Range(s) == { s[k] : k \in 1..Len(s) }

\* array.flat() on an array of arrays
RECURSIVE flat(_)
flat(arrays) ==
  IF arrays = << >> THEN << >> ELSE Head(arrays) \o flat(Tail(arrays))

\* [...new Set(array)]: first occurrences, in order
RECURSIVE uniqueInOrder(_)
uniqueInOrder(arr) ==
  IF arr = << >> THEN << >>
  ELSE LET init == uniqueInOrder(SubSeq(arr, 1, Len(arr) - 1))
           last == arr[Len(arr)]
       IN  IF last \in Range(init) THEN init ELSE Append(init, last)

\* array.slice().sort() on distinct lowercase words
RECURSIVE sortWords(_)
sortWords(S) ==
  IF S = {} THEN << >>
  ELSE LET m == CHOOSE w \in S : \A v \in S \ {w} : strLess(w, v)
       IN  << m >> \o sortWords(S \ {m})

\* ------------------------------------------------------------------------
\* Letter arithmetic (gameState.js)
\* ------------------------------------------------------------------------

Idx == 0..(LEN - 1)

zeroCounts == [ i \in Idx |-> 0 ]

\* a store into a Uint8Array element
u8(n) == n % 256

letterCounts(str) ==
  LET normalized == stripNonLetters(toLowerCase(str))
  IN  [ i \in Idx |->
          u8(Cardinality({ k \in 1..Len(normalized) : OrdTable[normalized[k]] = i })) ]

RECURSIVE sumUpTo(_, _)
sumUpTo(counts, i) ==
  IF i < 0 THEN 0 ELSE counts[i] + sumUpTo(counts, i - 1)

sumCounts(counts) == sumUpTo(counts, LEN - 1)

\* the comparison the wrong way round
canFormFromCounts_swapped(available, needCounts) ==
  \A i \in Idx : ~(needCounts[i] < available[i])

canFormFromCounts(available, needCounts) ==
  \A i \in Idx : ~(available[i] < needCounts[i])

countsEqual(a, b) == \A i \in Idx : a[i] = b[i]

\* the second vector forgotten
mergeCounts_first(a, b) == a

mergeCounts(a, b) == [ i \in Idx |-> u8(a[i] + b[i]) ]

RECURSIVE repeatChar(_, _)
repeatChar(ch, n) == IF n = 0 THEN << >> ELSE << ch >> \o repeatChar(ch, n - 1)

RECURSIVE countsToStringFrom(_, _)
countsToStringFrom(counts, i) ==
  IF i >= LEN THEN << >>
  ELSE repeatChar(Chr[i + 1], counts[i]) \o countsToStringFrom(counts, i + 1)

\* the inner loop run once too often: k <= counts[i]
countsToString_inclusive(counts) == countsToStringFrom([ i \in Idx |-> counts[i] + 1 ], 0)

countsToString(counts) == countsToStringFrom(counts, 0)

\* str.split(''): one block per character
split(str) == [ k \in 1..Len(str) |-> << str[k] >> ]


\* ------------------------------------------------------------------------
\* Bit operations on masks
\* ------------------------------------------------------------------------

RECURSIVE pow2(_)
pow2(n) == IF n = 0 THEN 1 ELSE 2 * pow2(n - 1)

\* mask & (1 << i), as a truth value
hasBit(mask, i) == (mask \div pow2(i)) % 2 = 1

RECURSIVE xor(_, _)
xor(a, b) ==
  IF a = 0 THEN b
  ELSE IF b = 0 THEN a
  ELSE (((a % 2) + (b % 2)) % 2) + (2 * xor(a \div 2, b \div 2))

\* ------------------------------------------------------------------------
\* findOneConstruction (gameState.js)
\* ------------------------------------------------------------------------

\* a floor of one block instead of two
minBlocks_one == 2 - 1

minBlocks == 2

NoConstruction == [ found |-> FALSE, blocks |-> << >>, wordsUsed |-> << >> ]

\* the anagram test left out
isAnagramOfOneWord_never(counts, wordCounts) == FALSE

\* wordCounts.some((wc) => countsEqual(counts, wc))
isAnagramOfOneWord(counts, wordCounts) ==
  \E k \in 1..Len(wordCounts) : countsEqual(counts, wordCounts[k])

\* the masks visited from 0 upwards
scanMask_ascending(k, numMasks) == k

\* the mask of the k-th turn of the loop (k from 0):
\* for (let mask = numMasks - 1; mask >= 0; mask--)
scanMask(k, numMasks) == numMasks - 1 - k

\* The loop over mask = numMasks - 1 down to 0, from its k-th turn on.  The
\* result keeps wordsUsed beside the flat block list the code returns
\* ([...wordsUsed, ...letters]).
RECURSIVE maskScan(_, _, _, _, _, _)
maskScan(k, targetCounts, availableCounts, wordCounts, subsetCounts, subsetWords) ==
  IF k >= Cardinality(DOMAIN subsetCounts) THEN NoConstruction
  ELSE
    LET mask == scanMask(k, Cardinality(DOMAIN subsetCounts))
        fromWordsCounts == subsetCounts[mask]
        wordsUsed == subsetWords[mask]
        valid == \A i \in Idx : ~(targetCounts[i] < fromWordsCounts[i])
        remainderBuf ==
          [ i \in Idx |->
              IF targetCounts[i] - fromWordsCounts[i] > 0
                THEN targetCounts[i] - fromWordsCounts[i]
                ELSE 0 ]
        remainderLen == sumCounts(remainderBuf)
        numBlocks == Len(wordsUsed) + remainderLen
        next ==
          maskScan(k + 1, targetCounts, availableCounts, wordCounts,
                   subsetCounts, subsetWords)
    IN  IF ~valid THEN next
        ELSE IF ~canFormFromCounts(availableCounts, remainderBuf) THEN next
        ELSE IF numBlocks < minBlocks THEN next
        ELSE IF /\ Len(wordsUsed) = 0
                /\ remainderLen > 0
                /\ isAnagramOfOneWord(remainderBuf, wordCounts)
          THEN next
        ELSE [ found |-> TRUE,
               blocks |-> wordsUsed \o split(countsToString(remainderBuf)),
               wordsUsed |-> wordsUsed ]

\* subsetCounts and subsetWords are functions over 0..numMasks-1 (the arrays
\* processGameState passes); playerWordCounts and targetCounts are passed too.
findOneConstruction(target, playerWordsUnique, poolCounts, availableCounts, playerWordCounts, targetCounts, subsetCounts, subsetWords) ==
  LET n == Len(playerWordsUnique)
      wordCounts == playerWordCounts
      numMasks == Cardinality(DOMAIN subsetCounts)
      lettersOnly ==
        /\ canFormFromCounts(availableCounts, targetCounts)
        /\ sumCounts(targetCounts) >= minBlocks
        /\ ~(n > 0 /\ isAnagramOfOneWord(targetCounts, wordCounts))
  IN  IF lettersOnly
        THEN [ found |-> TRUE,
               blocks |-> split(countsToString(targetCounts)),
               wordsUsed |-> << >> ]
        ELSE maskScan(0, targetCounts, availableCounts, wordCounts,
                      subsetCounts, subsetWords)

\* ------------------------------------------------------------------------
\* precomputeSubsets (gameState.js): Gray-code walk over the masks
\* ------------------------------------------------------------------------

\* array.splice(array.indexOf(x), 1)
RECURSIVE removeFirst(_, _)
removeFirst(arr, x) ==
  IF arr = << >> THEN << >>
  ELSE IF Head(arr) = x THEN Tail(arr)
  ELSE << Head(arr) >> \o removeFirst(Tail(arr), x)

RECURSIVE grayWalk(_, _, _, _)
grayWalk(k, st, playerWordsUnique, playerWordCounts) ==
  LET n == Len(playerWordsUnique)
      numMasks == pow2(n)
  IN  IF k >= numMasks THEN st
      ELSE
        LET gray == xor(k, k \div 2)
            diff == xor(st.prevGray, gray)
            i == CHOOSE j \in 0..(n - 1) : pow2(j) = diff
            wc == playerWordCounts[i + 1]
            adding == hasBit(gray, i)
            counts ==
              IF adding
                THEN [ j \in Idx |-> u8(st.currentCounts[j] + wc[j]) ]
                ELSE [ j \in Idx |-> u8(st.currentCounts[j] - wc[j]) ]
            words ==
              IF adding
                THEN Append(st.currentWords, playerWordsUnique[i + 1])
                ELSE removeFirst(st.currentWords, playerWordsUnique[i + 1])
        IN  grayWalk(k + 1,
                     [ subsetCounts |-> [ st.subsetCounts EXCEPT ![gray] = counts ],
                       subsetWords |-> [ st.subsetWords EXCEPT ![gray] = words ],
                       currentCounts |-> counts,
                       currentWords |-> words,
                       prevGray |-> gray ],
                     playerWordsUnique, playerWordCounts)

precomputeSubsets(playerWordsUnique, playerWordCounts) ==
  LET numMasks == pow2(Len(playerWordsUnique))
      st == grayWalk(1,
                     [ subsetCounts |-> [ m \in 0..(numMasks - 1) |-> zeroCounts ],
                       subsetWords |-> [ m \in 0..(numMasks - 1) |-> << >> ],
                       currentCounts |-> zeroCounts,
                       currentWords |-> << >>,
                       prevGray |-> 0 ],
                     playerWordsUnique, playerWordCounts)
  IN  [ subsetCounts |-> st.subsetCounts,
        subsetWords |-> st.subsetWords,
        playerWordsUnique |-> playerWordsUnique,
        playerWordCounts |-> playerWordCounts ]

\* ------------------------------------------------------------------------
\* The dictionary (worker.js loadDictionary: lowercase words of >= 2 letters)
\* ------------------------------------------------------------------------

W_a == << "a" >>

W_at == << "a", "t" >>

W_ar == << "a", "r" >>

W_ct == << "c", "t" >>

W_or == << "o", "r" >>

W_act == << "a", "c", "t" >>

W_cat == << "c", "a", "t" >>

W_car == << "c", "a", "r" >>

W_tar == << "t", "a", "r" >>

W_rat == << "r", "a", "t" >>

W_dog == << "d", "o", "g" >>

W_cart == << "c", "a", "r", "t" >>

W_boat == << "b", "o", "a", "t" >>

W_actor == << "a", "c", "t", "o", "r" >>

W_aboard == << "a", "b", "o", "a", "r", "d" >>

W_catdog == W_cat \o W_dog

W_catx == W_cat \o << "x" >>

W_Cat == << "C", "a", "t" >>

\* words.txt as loaded: the test dictionary of worker.test.js with the words
\* of its splitting test added
Dict ==
  << W_act, W_cat, W_actor, W_car, W_at, W_cart, W_tar, W_rat, W_or,
     W_aboard, W_boat, W_dog >>

\* loadDictionary: counts = words.map(letterCounts)
DictCounts == [ i \in 1..Len(Dict) |-> letterCounts(Dict[i]) ]

\* buildWordsByFirstAndLength: the dictionary indices under (first letter, length)
wordsByFirstAndLength(c, len) ==
  SelectSeq([ i \in 1..Len(Dict) |-> i ],
            LAMBDA i : /\ ~(Len(Dict[i]) < 2)
                       /\ OrdTable[Dict[i][1]] = c
                       /\ Len(Dict[i]) = len)

maxWordLength ==
  LET lens == { Len(Dict[i]) : i \in { j \in 1..Len(Dict) : ~(Len(Dict[j]) < 2) } }
  IN  IF lens = {} THEN 0 ELSE CHOOSE m \in lens : \A l \in lens : l <= m

\* ------------------------------------------------------------------------
\* processGameState (gameState.js)
\* ------------------------------------------------------------------------

\* A payload is a record; its players (or wordsPerPlayer) field is a sequence
\* of word lists, its availableLetters (or available) field a string.
normalizeGameData(payload) ==
  LET players ==
        IF "players" \in DOMAIN payload THEN payload.players
        ELSE IF "wordsPerPlayer" \in DOMAIN payload THEN payload.wordsPerPlayer
        ELSE << >>
      availableLetters ==
        IF "availableLetters" \in DOMAIN payload THEN payload.availableLetters
        ELSE IF "available" \in DOMAIN payload THEN payload.available
        ELSE << >>
  IN  [ wordsPerPlayer |-> players,
        availableLetters |-> stripNonLetters(toLowerCase(availableLetters)) ]

\* the subset cache as the worker creates it: {}
EmptyCache ==
  [ defined |-> FALSE,
    signature |-> << >>,
    subsetCounts |-> << >>,
    subsetWords |-> << >>,
    playerWordsUnique |-> << >>,
    playerWordCounts |-> << >> ]

\* obj[key] = value on an object kept as its entries in insertion order
objSet(obj, key, value) ==
  IF \E k \in 1..Len(obj) : obj[k].key = key
    THEN [ k \in 1..Len(obj) |->
             IF obj[k].key = key THEN [ key |-> key, value |-> value ] ELSE obj[k] ]
    ELSE Append(obj, [ key |-> key, value |-> value ])

objKeys(obj) == [ k \in 1..Len(obj) |-> obj[k].key ]

objHas(obj, key) == \E k \in 1..Len(obj) : obj[k].key = key

objGet(obj, key) == obj[CHOOSE k \in 1..Len(obj) : obj[k].key = key].value

RECURSIVE addWordCounts(_, _)
addWordCounts(counts, words) ==
  IF words = << >> THEN counts
  ELSE addWordCounts(mergeCounts(counts, letterCounts(Head(words))), Tail(words))

\* candidateIndices(): through the index by first letter and length, or the
\* whole dictionary in order
RECURSIVE candidatesByLength(_, _, _)
candidatesByLength(c, len, maxLen) ==
  IF len > maxLen THEN << >>
  ELSE wordsByFirstAndLength(c, len) \o candidatesByLength(c, len + 1, maxLen)

RECURSIVE candidatesByLetter(_, _, _)
candidatesByLetter(c, poolCounts, maxLen) ==
  IF c >= LEN THEN << >>
  ELSE (IF poolCounts[c] = 0 THEN << >>
        ELSE candidatesByLength(c, MIN_WORD_LENGTH, maxLen))
       \o candidatesByLetter(c + 1, poolCounts, maxLen)

candidateIndices(useIndex, poolCounts, maxLen) ==
  IF useIndex THEN candidatesByLetter(0, poolCounts, maxLen)
  ELSE [ i \in 1..Len(Dict) |-> i ]

\* the old mask taken by a shift: mask >> 1
oldMaskOf_shifted(mask, numMasksOld) == mask \div 2

\* oldMask = mask & (numMasksOld - 1), numMasksOld being a power of two
oldMaskOf(mask, numMasksOld) == mask % numMasksOld

\* how the subset tables are obtained: by extension, from the cache, or afresh
subsetTables(playerWordsUniqueFull, playerWordCountsFull, signature, cache, useCache) ==
  LET nNew == Len(playerWordsUniqueFull)
      nOld == IF useCache /\ cache.defined THEN Len(cache.playerWordsUnique) ELSE 0
      oldSet == IF nOld > 0 THEN Range(cache.playerWordsUnique) ELSE {}
      fresh == SelectSeq(playerWordsUniqueFull, LAMBDA w : w \notin oldSet)
      hasNewWord == nNew = nOld + 1 /\ fresh # << >>
      newWord == Head(fresh)
      canExtend ==
        /\ useCache
        /\ cache.defined
        /\ nNew = nOld + 1
        /\ hasNewWord
        /\ \A k \in 1..nNew :
             playerWordsUniqueFull[k] = newWord \/ playerWordsUniqueFull[k] \in oldSet
      newWordCounts == letterCounts(newWord)
      numMasksOld == pow2(nOld)
      numMasksNew == pow2(nNew)
  IN  IF canExtend
        THEN [ path |-> "extend",
               signature |-> signature,
               subsetCounts |->
                 [ mask \in 0..(numMasksNew - 1) |->
                     IF mask < numMasksOld
                       THEN cache.subsetCounts[mask]
                       ELSE mergeCounts(cache.subsetCounts[oldMaskOf(mask, numMasksOld)],
                                        newWordCounts) ],
               subsetWords |->
                 [ mask \in 0..(numMasksNew - 1) |->
                     IF mask < numMasksOld
                       THEN cache.subsetWords[mask]
                       ELSE Append(cache.subsetWords[oldMaskOf(mask, numMasksOld)], newWord) ],
               playerWordsUnique |-> Append(cache.playerWordsUnique, newWord),
               playerWordCounts |-> Append(cache.playerWordCounts, newWordCounts) ]
      ELSE IF useCache /\ cache.defined /\ cache.signature = signature
        THEN [ path |-> "reuse",
               signature |-> signature,
               subsetCounts |-> cache.subsetCounts,
               subsetWords |-> cache.subsetWords,
               playerWordsUnique |-> cache.playerWordsUnique,
               playerWordCounts |-> cache.playerWordCounts ]
      ELSE LET pre == precomputeSubsets(playerWordsUniqueFull, playerWordCountsFull)
           IN  [ path |-> "build",
                 signature |-> signature,
                 subsetCounts |-> pre.subsetCounts,
                 subsetWords |-> pre.subsetWords,
                 playerWordsUnique |-> pre.playerWordsUnique,
                 playerWordCounts |-> pre.playerWordCounts ]

\* the loop over the candidates: the entries of recommended_words and
\* lettersToSteal in insertion order (wordsUsed kept beside each construction)
RECURSIVE recommendLoop(_, _, _, _, _, _)
recommendLoop(cands, acc, poolCounts, availableCounts, totalPool, tab) ==
  IF cands = << >> THEN acc
  ELSE
    LET i == Head(cands)
        word == Dict[i]
        wc == DictCounts[i]
        skip ==
          \/ Len(word) < MIN_WORD_LENGTH
          \/ Len(word) > totalPool
          \/ poolCounts[OrdTable[word[1]]] = 0
          \/ ~canFormFromCounts(poolCounts, wc)
        construction ==
          findOneConstruction(word, tab.playerWordsUnique, poolCounts, availableCounts,
                              tab.playerWordCounts, wc, tab.subsetCounts, tab.subsetWords)
        acc2 ==
          IF skip \/ ~construction.found THEN acc
          ELSE [ recommended_words |->
                   objSet(acc.recommended_words, word, construction.blocks),
                 lettersToSteal |->
                   objSet(acc.lettersToSteal, word,
                          Len(SelectSeq(construction.blocks, LAMBDA b : Len(b) = 1))),
                 wordsUsed |->
                   objSet(acc.wordsUsed, word, construction.wordsUsed) ]
    IN  recommendLoop(Tail(cands), acc2, poolCounts, availableCounts, totalPool, tab)

\* processGameState(payload, dict, dictCounts, dictIndex, subsetCache):
\* useIndex says whether dictIndex is passed, useCache whether subsetCache is.
\* The value is the returned object and the cache as the call leaves it.
processGameState(payload, useIndex, cache, useCache) ==
  LET norm == normalizeGameData(payload)
      wordsPerPlayer == norm.wordsPerPlayer
      availableLetters == norm.availableLetters
      availableCounts == letterCounts(availableLetters)
      allPlayerWords ==
        SelectSeq([ k \in 1..Len(flat(wordsPerPlayer)) |->
                      stripNonLetters(toLowerCase(flat(wordsPerPlayer)[k])) ],
                  LAMBDA w : w # << >>)
      poolCounts == addWordCounts(availableCounts, allPlayerWords)
      playerWordsUniqueFull == uniqueInOrder(allPlayerWords)
      playerWordCountsFull ==
        [ k \in 1..Len(playerWordsUniqueFull) |-> letterCounts(playerWordsUniqueFull[k]) ]
      totalPool == sumCounts(poolCounts)
      signature == sortWords(Range(playerWordsUniqueFull))
      tab == subsetTables(playerWordsUniqueFull, playerWordCountsFull, signature,
                          cache, useCache)
      maxLen ==
        IF useIndex /\ maxWordLength < totalPool THEN maxWordLength ELSE totalPool
      acc ==
        recommendLoop(candidateIndices(useIndex, poolCounts, maxLen),
                      [ recommended_words |-> << >>,
                        lettersToSteal |-> << >>,
                        wordsUsed |-> << >> ],
                      poolCounts, availableCounts, totalPool, tab)
  IN  [ result |->
          [ players |-> wordsPerPlayer,
            recommended_words |-> acc.recommended_words,
            lettersToSteal |-> acc.lettersToSteal,
            availableLetters |-> availableLetters ],
        wordsUsed |-> acc.wordsUsed,
        path |-> tab.path,
        cache |->
          IF useCache /\ tab.path # "reuse"
            THEN [ defined |-> TRUE,
                   signature |-> tab.signature,
                   subsetCounts |-> tab.subsetCounts,
                   subsetWords |-> tab.subsetWords,
                   playerWordsUnique |-> tab.playerWordsUnique,
                   playerWordCounts |-> tab.playerWordCounts ]
            ELSE cache ]


\* ------------------------------------------------------------------------
\* JavaScript strings and doubles used by the fusion filter
\* ------------------------------------------------------------------------

\* Math.abs on integers
abs(n) == IF n < 0 THEN 0 - n ELSE n

\* str.slice(from, to), 0 <= from
slice(str, from, to) ==
  SubSeq(str, from + 1, IF to > Len(str) THEN Len(str) ELSE to)

\* str.slice(0, i) + str.slice(i + 1)
removeAt(str, i) == slice(str, 0, i) \o slice(str, i + 1, Len(str))

\* str.slice(0, pos) + letter + str.slice(pos)
insertAt(str, pos, letter) ==
  slice(str, 0, pos) \o << letter >> \o slice(str, pos, Len(str))

\* str.includes(sub)
includes(str, sub) ==
  \E i \in 0..(Len(str) - Len(sub)) : SubSeq(str, i + 1, i + Len(sub)) = sub

\* str.indexOf(sub)
indexOf(str, sub) ==
  IF includes(str, sub)
    THEN CHOOSE i \in 0..(Len(str) - Len(sub)) :
           /\ SubSeq(str, i + 1, i + Len(sub)) = sub
           /\ \A j \in 0..(i - 1) : SubSeq(str, j + 1, j + Len(sub)) # sub
    ELSE 0 - 1

startsWith(str, sub) ==
  Len(sub) <= Len(str) /\ SubSeq(str, 1, Len(sub)) = sub

endsWith(str, sub) ==
  Len(sub) <= Len(str) /\ SubSeq(str, Len(str) - Len(sub) + 1, Len(str)) = sub

\* array.map((w) => w.toLowerCase())
toLowerCaseAll(arr) == [ k \in 1..Len(arr) |-> toLowerCase(arr[k]) ]

\* the loop the code uses three times over: removing one letter of the
\* longer word gives the shorter one.  With words of one length both names
\* stand for the second word.
removingOneLetterMatches(w1, w2) ==
  LET shorter == IF Len(w1) < Len(w2) THEN w1 ELSE w2
      longer == IF Len(w1) > Len(w2) THEN w1 ELSE w2
  IN  \E i \in 0..(Len(longer) - 1) : removeAt(longer, i) = shorter

\* A double d with 0 <= d < 2 is the integer d * 2^56 kept in two limbs,
\* hi * 2^28 + lo; every value the confidence tracker computes is such a
\* multiple.  roundDouble rounds an exact sum or difference to 53 significant
\* bits, ties to even, as the addition and subtraction of doubles do.
Limb == 268435456

double(hi, lo) == [ hi |-> hi, lo |-> lo ]

D_0 == double(0, 0)

D_0_1 == double(26843545, 161061274)

D_0_25 == double(67108864, 0)

D_0_5 == double(134217728, 0)

D_1 == double(268435456, 0)

dLessEq(a, b) == a.hi < b.hi \/ (a.hi = b.hi /\ a.lo <= b.lo)

dLess(a, b) == a.hi < b.hi \/ (a.hi = b.hi /\ a.lo < b.lo)

roundDouble(hi, lo) ==
  LET ulp == IF hi >= 268435456 THEN 16
             ELSE IF hi >= 134217728 THEN 8
             ELSE IF hi >= 67108864 THEN 4
             ELSE IF hi >= 33554432 THEN 2
             ELSE 1
      rem == lo % ulp
      down == lo - rem
      up == \/ 2 * rem > ulp
            \/ 2 * rem = ulp /\ (down \div ulp) % 2 = 1
      lo2 == IF up THEN down + ulp ELSE down
  IN  double(hi + (lo2 \div Limb), lo2 % Limb)

\* a + b
dAdd(a, b) ==
  roundDouble(a.hi + b.hi + ((a.lo + b.lo) \div Limb), (a.lo + b.lo) % Limb)

\* a - b for a >= b
dSub(a, b) ==
  IF a.lo >= b.lo
    THEN roundDouble(a.hi - b.hi, a.lo - b.lo)
    ELSE roundDouble(a.hi - b.hi - 1, a.lo + Limb - b.lo)

\* Math.min(1.0, c + 0.25)
dMin1Add(c) == IF dLessEq(D_1, dAdd(c, D_0_25)) THEN D_1 ELSE dAdd(c, D_0_25)

\* Math.max(0.0, c - 0.1)
dMax0Sub(c) == IF dLessEq(c, D_0_1) THEN D_0 ELSE dSub(c, D_0_1)

\* ------------------------------------------------------------------------
\* Correction rules (dataFusion.js)
\* ------------------------------------------------------------------------

\* a floor of two letters instead of three
FUSION_MIN_WORD_LENGTH_two == 3 - 1

FUSION_MIN_WORD_LENGTH == 3

\* new Set(words) of loadDictionary
dictSet == Range(Dict)

isRealWord(word) == toLowerCase(word) \in dictSet

\* a rule's result: null, or a word
NoWord == [ found |-> FALSE, word |-> << >> ]

FoundWord(w) == [ found |-> TRUE, word |-> w ]

\* a rule's result: null, or an array of words
NoWords == [ found |-> FALSE, words |-> << >> ]

FoundWords(ws) == [ found |-> TRUE, words |-> ws ]

RECURSIVE checkOneLetterOff(_, _)
checkOneLetterOff(word, previousWords) ==
  IF previousWords = << >> THEN NoWord
  ELSE
    LET lower == toLowerCase(word)
        prevLower == toLowerCase(Head(previousWords))
        shorter == IF Len(lower) < Len(prevLower) THEN lower ELSE prevLower
        longer == IF Len(lower) > Len(prevLower) THEN lower ELSE prevLower
        next == checkOneLetterOff(word, Tail(previousWords))
    IN  IF abs(Len(lower) - Len(prevLower)) # 1 THEN next
        ELSE IF ~removingOneLetterMatches(lower, prevLower) THEN next
        ELSE IF isRealWord(prevLower) THEN FoundWord(prevLower)
        ELSE IF isRealWord(shorter) THEN FoundWord(shorter)
        ELSE IF isRealWord(longer) THEN FoundWord(longer)
        ELSE next

checkSplitIntoTwoWords(word, disappearedWords) ==
  LET lower == toLowerCase(word)
      disappearedSet == { toLowerCase(w) : w \in Range(disappearedWords) }
      points == FUSION_MIN_WORD_LENGTH..(Len(lower) - FUSION_MIN_WORD_LENGTH)
      part1(i) == slice(lower, 0, i)
      part2(i) == slice(lower, i, Len(lower))
      withDisappeared ==
        { i \in points :
            \/ part1(i) \in disappearedSet /\ isRealWord(part2(i))
            \/ part2(i) \in disappearedSet /\ isRealWord(part1(i)) }
      bothReal == { i \in points : isRealWord(part1(i)) /\ isRealWord(part2(i)) }
      first(S) == CHOOSE i \in S : \A j \in S : i <= j
  IN  IF withDisappeared # {}
        THEN FoundWords(<< part1(first(withDisappeared)), part2(first(withDisappeared)) >>)
      ELSE IF bothReal # {}
        THEN FoundWords(<< part1(first(bothReal)), part2(first(bothReal)) >>)
      ELSE NoWords

RECURSIVE checkRecursiveSplit(_, _)
RECURSIVE recursiveSplitFrom(_, _, _)
\* the loop of checkRecursiveSplit from split position i on
recursiveSplitFrom(lower, i, maxDepth) ==
  IF i > Len(lower) - FUSION_MIN_WORD_LENGTH THEN NoWords
  ELSE
    LET part1 == slice(lower, 0, i)
        part2 == slice(lower, i, Len(lower))
        part1IsReal == isRealWord(part1)
        part2IsReal == isRealWord(part2)
        splitPart2 == checkRecursiveSplit(part2, maxDepth - 1)
        splitPart1 == checkRecursiveSplit(part1, maxDepth - 1)
        next == recursiveSplitFrom(lower, i + 1, maxDepth)
    IN  IF part1IsReal /\ part2IsReal THEN FoundWords(<< part1, part2 >>)
        ELSE IF part1IsReal /\ maxDepth > 0
          THEN IF splitPart2.found
                 THEN FoundWords(<< part1 >> \o splitPart2.words)
                 ELSE next
        ELSE IF part2IsReal /\ maxDepth > 0
          THEN IF splitPart1.found
                 THEN FoundWords(splitPart1.words \o << part2 >>)
                 ELSE next
        ELSE next

checkRecursiveSplit(word, maxDepth) ==
  LET lower == toLowerCase(word)
  IN  IF Len(lower) < FUSION_MIN_WORD_LENGTH * 2 THEN NoWords
      ELSE IF isRealWord(lower) THEN FoundWords(<< lower >>)
      ELSE recursiveSplitFrom(lower, FUSION_MIN_WORD_LENGTH, maxDepth)

\* the loop of checkCombinedWithWord over the disappeared words still to try
RECURSIVE combinedFrom(_, _, _)
combinedFrom(lower, rest, disappearedSet) ==
  IF rest = << >> THEN NoWords
  ELSE
    LET disappearedWord == Head(rest)
        disappearedLower == toLowerCase(disappearedWord)
        next == combinedFrom(lower, Tail(rest), disappearedSet)
        usable(part) ==
          /\ Len(part) >= FUSION_MIN_WORD_LENGTH
          /\ (isRealWord(part) \/ part \in disappearedSet)
        afterStart == slice(lower, Len(disappearedLower), Len(lower))
        beforeEnd == slice(lower, 0, Len(lower) - Len(disappearedLower))
        index == indexOf(lower, disappearedLower)
        before == slice(lower, 0, index)
        after == slice(lower, index + Len(disappearedLower), Len(lower))
    IN  IF Len(disappearedLower) < FUSION_MIN_WORD_LENGTH THEN next
        ELSE IF /\ startsWith(lower, disappearedLower)
                /\ Len(lower) > Len(disappearedLower)
                /\ usable(afterStart)
          THEN FoundWords(<< disappearedWord, afterStart >>)
        ELSE IF /\ endsWith(lower, disappearedLower)
                /\ Len(lower) > Len(disappearedLower)
                /\ usable(beforeEnd)
          THEN FoundWords(<< beforeEnd, disappearedWord >>)
        ELSE IF /\ index >= FUSION_MIN_WORD_LENGTH
                /\ index + Len(disappearedLower) <= Len(lower) - FUSION_MIN_WORD_LENGTH
                /\ usable(before)
                /\ usable(after)
          THEN FoundWords(<< before, disappearedWord, after >>)
        ELSE next

\* the parts found, last part first
checkCombinedWithWord_reversed(word, disappearedWords) ==
  LET r == combinedFrom(toLowerCase(word), disappearedWords,
                        { toLowerCase(w) : w \in Range(disappearedWords) })
  IN  IF r.found
        THEN FoundWords([ i \in 1..Len(r.words) |-> r.words[Len(r.words) + 1 - i] ])
        ELSE r

checkCombinedWithWord(word, disappearedWords) ==
  LET lower == toLowerCase(word)
      disappearedSet == { toLowerCase(w) : w \in Range(disappearedWords) }
  IN  combinedFrom(lower, disappearedWords, disappearedSet)

commonLetters ==
  << "e", "a", "r", "i", "o", "t", "n", "s", "l", "c", "u", "d", "p",
     "m", "h", "g", "b", "f", "y", "w", "k", "v", "x", "z", "j", "q" >>

\* the insert positions 0..n sorted by their distance from the middle n/2
\* (a stable sort: equal distances keep the lower position first)
positions(n) ==
  LET before(j, i) ==
        \/ abs(2 * j - n) < abs(2 * i - n)
        \/ abs(2 * j - n) = abs(2 * i - n) /\ j < i
  IN  [ k \in 1..(n + 1) |->
          CHOOSE i \in 0..n : Cardinality({ j \in 0..n : before(j, i) }) = k - 1 ]

\* the first dictionary word met when every position, in order, is tried
\* with every letter, in order
firstInsertion(lower, letters) ==
  LET pos == positions(Len(lower))
      nL == Len(letters)
      total == Len(pos) * nL
      candidate(k) ==
        insertAt(lower, pos[((k - 1) \div nL) + 1], letters[((k - 1) % nL) + 1])
      hits == { k \in 1..total : isRealWord(candidate(k)) }
  IN  IF nL = 0 \/ hits = {} THEN NoWord
      ELSE FoundWord(candidate(CHOOSE k \in hits : \A j \in hits : k <= j))

checkAddOneLetter(word, oldFreeList) ==
  LET lower == toLowerCase(word)
      freeListLetters ==
        uniqueInOrder(SelectSeq(toLowerCase(oldFreeList), LAMBDA c : c \in LowerChars))
      fromFreeList == firstInsertion(lower, freeListLetters)
  IN  IF Len(freeListLetters) > 0 /\ fromFreeList.found THEN fromFreeList
      ELSE firstInsertion(lower, commonLetters)

\* { word, wasModified } where word is a string or an array of strings
oneWord(w, wasModified) ==
  [ words |-> << w >>, isArray |-> FALSE, wasModified |-> wasModified ]

severalWords(ws) == [ words |-> ws, isArray |-> TRUE, wasModified |-> TRUE ]

correctWord(word, previousWords, oldFreeList, disappearedWords) ==
  LET normalized == trim(toLowerCase(word))
      combined == checkCombinedWithWord(normalized, disappearedWords)
      splitInTwo == checkSplitIntoTwoWords(normalized, disappearedWords)
      recursiveSplit == checkRecursiveSplit(normalized, 3)
      oneLetterOff == checkOneLetterOff(normalized, previousWords)
      withAddedLetter == checkAddOneLetter(normalized, oldFreeList)
  IN  IF normalized = << >> THEN oneWord(normalized, FALSE)
      ELSE IF isRealWord(normalized) THEN oneWord(normalized, FALSE)
      ELSE IF combined.found THEN severalWords(combined.words)
      ELSE IF splitInTwo.found THEN severalWords(splitInTwo.words)
      ELSE IF /\ Len(normalized) >= FUSION_MIN_WORD_LENGTH * 2
              /\ recursiveSplit.found
              /\ Len(recursiveSplit.words) > 1
        THEN severalWords(recursiveSplit.words)
      ELSE IF oneLetterOff.found THEN oneWord(oneLetterOff.word, TRUE)
      ELSE IF withAddedLetter.found THEN oneWord(withAddedLetter.word, TRUE)
      ELSE oneWord(normalized, FALSE)

\* ------------------------------------------------------------------------
\* Trackers (dataFusion.js)
\* ------------------------------------------------------------------------

\* new FreeListTracker()
NewFreeListTracker == [ rawCalls |-> << >>, currentFreeList |-> << >> ]

\* push, then keep the last two
lastTwo(calls) ==
  IF Len(calls) > 2 THEN SubSeq(calls, Len(calls) - 1, Len(calls)) ELSE calls

FreeListTracker_recordRawCall(tracker, rawFreeList) ==
  [ tracker EXCEPT !.rawCalls = lastTwo(Append(@, toLowerCase(rawFreeList))) ]

getOldFreeList(tracker) == tracker.currentFreeList

\* new WordVisibilityTracker()
NewWordVisibilityTracker == [ rawWordCalls |-> << >> ]

WordVisibilityTracker_recordRawCall(tracker, rawWords) ==
  [ rawWordCalls |->
      lastTwo(Append(tracker.rawWordCalls,
                     [ k \in 1..Len(rawWords) |-> trim(toLowerCase(rawWords[k])) ])) ]

wasSeenInLastTwoCalls(tracker, word) ==
  \E c \in 1..Len(tracker.rawWordCalls) :
    toLowerCase(word) \in Range(tracker.rawWordCalls[c])

\* new WordConfidenceTracker(): the map word -> { confidence, wasModified },
\* a function on the tracked words
NewWordConfidenceTracker == [ w \in {} |-> 0 ]

getConfidence(wordConfidences, word) ==
  IF toLowerCase(word) \in DOMAIN wordConfidences
    THEN wordConfidences[toLowerCase(word)].confidence
    ELSE D_1

wasModified(wordConfidences, word) ==
  IF toLowerCase(word) \in DOMAIN wordConfidences
    THEN wordConfidences[toLowerCase(word)].wasModified
    ELSE FALSE

\* wordConfidences.set(key, entry)
mapSet(m, key, entry) ==
  [ k \in (DOMAIN m) \cup { key } |-> IF k = key THEN entry ELSE m[k] ]

\* the first loop of update: the current words one after the other
RECURSIVE observeWords(_, _, _)
observeWords(wordConfidences, currentWords, modifiedWordsSet) ==
  IF currentWords = << >> THEN wordConfidences
  ELSE
    LET lower == toLowerCase(Head(currentWords))
        currentConf == getConfidence(wordConfidences, lower)
        entry ==
          IF lower \in modifiedWordsSet
            THEN [ confidence |-> D_0_5, wasModified |-> TRUE ]
          ELSE IF dLess(currentConf, D_1)
            THEN [ confidence |-> dMin1Add(currentConf), wasModified |-> FALSE ]
          ELSE [ confidence |-> D_1, wasModified |-> FALSE ]
    IN  observeWords(mapSet(wordConfidences, lower, entry),
                     Tail(currentWords), modifiedWordsSet)

\* the second loop of update: every tracked word that is not observed
decayUnobserved(wordConfidences, currentWordsSet) ==
  LET newConf(w) == dMax0Sub(wordConfidences[w].confidence)
      kept ==
        { w \in DOMAIN wordConfidences :
            w \in currentWordsSet \/ ~dLessEq(newConf(w), D_0) }
  IN  [ w \in kept |->
          IF w \in currentWordsSet THEN wordConfidences[w]
          ELSE [ confidence |-> newConf(w),
                 wasModified |-> wordConfidences[w].wasModified ] ]

\* WordConfidenceTracker.update(currentWords, modifiedWords)
update(wordConfidences, currentWords, modifiedWords) ==
  LET currentWordsSet == { toLowerCase(w) : w \in Range(currentWords) }
      modifiedWordsSet == { toLowerCase(w) : w \in Range(modifiedWords) }
  IN  decayUnobserved(observeWords(wordConfidences, currentWords, modifiedWordsSet),
                      currentWordsSet)

shouldDiscardModifiedWord(wordConfidences, modifiedWord, newWord) ==
  LET modifiedConf == getConfidence(wordConfidences, modifiedWord)
      modifiedLower == toLowerCase(modifiedWord)
      newLower == toLowerCase(newWord)
  IN  /\ wasModified(wordConfidences, modifiedWord)
      /\ dLessEq(modifiedConf, D_0_5)
      /\ abs(Len(modifiedLower) - Len(newLower)) <= 1
      /\ removingOneLetterMatches(modifiedLower, newLower)

\* ------------------------------------------------------------------------
\* fuseData (dataFusion.js)
\* ------------------------------------------------------------------------

\* previousFusedState = null
NoFusedState == [ defined |-> FALSE, words |-> << >>, availableLetters |-> << >> ]

\* one turn of the inner loop of the correction pass: what a raw word
\* contributes to correctedPlayerWords and to modifiedWords
correctRawWord(word, previousWords, oldFreeList, disappearedWords) ==
  LET withAddedLetter == checkAddOneLetter(trim(toLowerCase(word)), oldFreeList)
      result == correctWord(word, previousWords, oldFreeList, disappearedWords)
      validSplitWords ==
        SelectSeq(result.words, LAMBDA w : Len(w) >= FUSION_MIN_WORD_LENGTH)
      corrected == result.words[1]
  IN  IF Len(word) < FUSION_MIN_WORD_LENGTH
        THEN IF withAddedLetter.found
                /\ Len(withAddedLetter.word) >= FUSION_MIN_WORD_LENGTH
               THEN [ raw |-> word,
                      words |-> << withAddedLetter.word >>,
                      modified |-> << withAddedLetter.word >> ]
               ELSE [ raw |-> word, words |-> << >>, modified |-> << >> ]
      ELSE IF result.isArray
        THEN [ raw |-> word, words |-> validSplitWords, modified |-> validSplitWords ]
      ELSE IF Len(corrected) >= FUSION_MIN_WORD_LENGTH
        THEN [ raw |-> word,
               words |-> << corrected >>,
               modified |-> IF result.wasModified THEN << corrected >> ELSE << >> ]
      ELSE [ raw |-> word, words |-> << >>, modified |-> << >> ]

\* Step 2: the correction pass, player by player and word by word
correctionPass(wordsPerPlayer, previousWords, oldFreeList, disappearedWords) ==
  [ p \in 1..Len(wordsPerPlayer) |->
      [ k \in 1..Len(wordsPerPlayer[p]) |->
          correctRawWord(wordsPerPlayer[p][k], previousWords, oldFreeList,
                         disappearedWords) ] ]

\* Step 2.5: whether the confidence filter discards a corrected word
discardedByConfidence(word, modifiedWordsSet, wordConfidences, rawInputWords) ==
  LET lower == toLowerCase(word)
      byTracker ==
        \E k \in 1..Len(rawInputWords) :
          /\ rawInputWords[k] # lower
          /\ shouldDiscardModifiedWord(wordConfidences, lower, rawInputWords[k])
      byRealNeighbour ==
        \E k \in 1..Len(rawInputWords) :
          /\ rawInputWords[k] # lower
          /\ abs(Len(lower) - Len(rawInputWords[k])) <= 1
          /\ removingOneLetterMatches(lower, rawInputWords[k])
          /\ isRealWord(rawInputWords[k])
  IN  /\ lower \in modifiedWordsSet
      /\ wasModified(wordConfidences, lower)
      /\ (byTracker \/ byRealNeighbour)

areWordsSimilar(word1, word2) ==
  LET w1 == toLowerCase(word1)
      w2 == toLowerCase(word2)
  IN  \/ w1 = w2
      \/ /\ ~(abs(Len(w1) - Len(w2)) > 1)
         /\ removingOneLetterMatches(w1, w2)

\* Step 3: the loop over previousWords; a restored word is pushed on the
\* first player's list and on allCorrectedWords
RECURSIVE restoreLoop(_, _, _, _, _, _)
restoreLoop(rest, correctedWordsPerPlayer, allCorrectedWords, correctedWordsSet, rawInputWords, visibility) ==
  IF rest = << >>
    THEN [ correctedWordsPerPlayer |-> correctedWordsPerPlayer,
           allCorrectedWords |-> allCorrectedWords ]
  ELSE
    LET prevWord == Head(rest)
        prevLower == toLowerCase(prevWord)
        found ==
          \E k \in 1..Len(allCorrectedWords) :
            \/ includes(toLowerCase(allCorrectedWords[k]), prevLower)
            \/ includes(prevLower, toLowerCase(allCorrectedWords[k]))
        hasSimilarNewWord ==
          \E k \in 1..Len(rawInputWords) : areWordsSimilar(prevLower, rawInputWords[k])
        restore ==
          /\ ~(Len(prevWord) < FUSION_MIN_WORD_LENGTH)
          /\ prevLower \notin correctedWordsSet
          /\ ~found
          /\ ~hasSimilarNewWord
          /\ wasSeenInLastTwoCalls(visibility, prevLower)
          /\ Len(correctedWordsPerPlayer) > 0
    IN  IF restore
          THEN restoreLoop(Tail(rest),
                           [ correctedWordsPerPlayer EXCEPT ![1] = Append(@, prevWord) ],
                           Append(allCorrectedWords, prevWord),
                           correctedWordsSet, rawInputWords, visibility)
          ELSE restoreLoop(Tail(rest), correctedWordsPerPlayer, allCorrectedWords,
                           correctedWordsSet, rawInputWords, visibility)

\* the free list carried over from the call before
finalFreeList_smoothed(availableLetters, freeList) ==
  IF freeList.rawCalls = << >> THEN toLowerCase(availableLetters)
  ELSE Head(freeList.rawCalls)

\* Step 5: (availableLetters || '').toLowerCase(), whatever the tracker holds
finalFreeList(availableLetters, freeList) == toLowerCase(availableLetters)

\* Step 5, the final filter and the confidence update: the returned
\* object, the trackers as the call leaves them, and the locals of the call
fuseData_final(availableLetters, freeList, wordConfidences, visibility, locals, modifiedWords, restored) ==
  LET finalWordsPerPlayer ==
        [ p \in 1..Len(restored.correctedWordsPerPlayer) |->
            SelectSeq(restored.correctedWordsPerPlayer[p],
                      LAMBDA w : Len(w) >= FUSION_MIN_WORD_LENGTH) ]
      finalAllWords ==
        SelectSeq(restored.allCorrectedWords, LAMBDA w : Len(w) >= FUSION_MIN_WORD_LENGTH)
      modifiedWordsLower ==
        toLowerCaseAll(SelectSeq(modifiedWords, LAMBDA w : Len(w) >= FUSION_MIN_WORD_LENGTH))
  IN  [ fused |-> [ players |-> finalWordsPerPlayer, availableLetters |-> finalFreeList(availableLetters, freeList) ],
        freeListTracker |-> freeList,
        wordVisibilityTracker |-> visibility,
        confidenceTracker |-> update(wordConfidences, finalAllWords, modifiedWordsLower),
        locals |->
          [ previousWords |-> locals.previousWords,
            rawInputWords |-> locals.rawInputWords,
            disappearedWords |-> locals.disappearedWords,
            corrections |-> locals.corrections,
            modifiedWords |-> modifiedWords,
            filteredAllWords |-> locals.filteredAllWords,
            allCorrectedWords |-> restored.allCorrectedWords ] ]

\* Step 3: the restoration of disappeared words
fuseData_restore(availableLetters, freeList, wordConfidences, visibility, locals, modifiedWords, filteredWordsPerPlayer) ==
  fuseData_final(
    availableLetters, freeList, wordConfidences, visibility,
    [ previousWords |-> locals.previousWords,
      rawInputWords |-> locals.rawInputWords,
      disappearedWords |-> locals.disappearedWords,
      corrections |-> locals.corrections,
      filteredAllWords |-> flat(filteredWordsPerPlayer) ],
    modifiedWords,
    restoreLoop(locals.previousWords, filteredWordsPerPlayer, flat(filteredWordsPerPlayer),
                { toLowerCase(w) : w \in Range(flat(filteredWordsPerPlayer)) },
                locals.rawInputWords, visibility))

\* Step 2.5: the confidence filter over the corrected words
fuseData_filter(availableLetters, freeList, wordConfidences, visibility, locals, corrections) ==
  LET correctedFirst ==
        [ p \in 1..Len(corrections) |->
            flat([ k \in 1..Len(corrections[p]) |-> corrections[p][k].words ]) ]
      modifiedWords ==
        flat([ p \in 1..Len(corrections) |->
                 flat([ k \in 1..Len(corrections[p]) |-> corrections[p][k].modified ]) ])
      modifiedWordsSet == { toLowerCase(w) : w \in Range(modifiedWords) }
  IN  fuseData_restore(
        availableLetters, freeList, wordConfidences, visibility,
        [ previousWords |-> locals.previousWords,
          rawInputWords |-> locals.rawInputWords,
          disappearedWords |-> locals.disappearedWords,
          corrections |-> corrections ],
        modifiedWords,
        [ p \in 1..Len(correctedFirst) |->
            SelectSeq(correctedFirst[p],
                      LAMBDA w : ~discardedByConfidence(w, modifiedWordsSet, wordConfidences,
                                                        locals.rawInputWords)) ])

\* Steps 1 and 2 with the raw words of the call
fuseData_correct(wordsPerPlayer, availableLetters, previousWords, freeList, wordConfidences, visibility, rawInputWords) ==
  LET oldFreeList == getOldFreeList(freeList)
      currentWordsSet == Range(rawInputWords)
      disappearedWords ==
        SelectSeq(previousWords, LAMBDA w : toLowerCase(w) \notin currentWordsSet)
  IN  fuseData_filter(
        availableLetters,
        FreeListTracker_recordRawCall(freeList, availableLetters),
        wordConfidences,
        WordVisibilityTracker_recordRawCall(visibility, rawInputWords),
        [ previousWords |-> previousWords,
          rawInputWords |-> rawInputWords,
          disappearedWords |-> disappearedWords ],
        correctionPass(wordsPerPlayer, previousWords, oldFreeList, disappearedWords))

\* fuseData(payload, previousState, dictSet, freeListTracker,
\* confidenceTracker, wordVisibilityTracker): the returned object, the
\* trackers as the call leaves them, and the locals of the call
fuseData(payload, previousState, freeList, wordConfidences, visibility) ==
  LET norm == normalizeGameData(payload)
      allRaw == flat(norm.wordsPerPlayer)
  IN  fuseData_correct(
        norm.wordsPerPlayer, norm.availableLetters,
        IF previousState.defined THEN previousState.words ELSE << >>,
        freeList, wordConfidences, visibility,
        [ k \in 1..Len(allRaw) |-> trim(toLowerCase(allRaw[k])) ])
\* ------------------------------------------------------------------------
\* Scoring (recommendationScorer.js)
\* ------------------------------------------------------------------------

\* A Zipf score is kept in quarters (5.25 is 21) and a word score in 960ths,
\* so that the scores of the table are exact:
\* 1.5 * (zipf / 8) + 1.0 * (length / 15) = (45 * quarters + 64 * length) / 960.

\* ScoringConfig.minFrequency = 1.0, in quarters
minFrequency == 4

\* frequencies[word] || 0
frequencyOf(frequencies, word) ==
  IF word \in DOMAIN frequencies THEN frequencies[word] ELSE 0

scoreWord(word, frequency) == 45 * frequency + 64 * Len(word)

\* the comparator turned round: (a, b) => a.score - b.score
sortDescending_ascending(arr, scores) ==
  LET n == Len(arr)
      before(j, i) ==
        \/ scores[j] < scores[i]
        \/ scores[j] = scores[i] /\ j < i
  IN  [ k \in 1..n |->
          arr[CHOOSE i \in 1..n : Cardinality({ j \in 1..n : before(j, i) }) = k - 1] ]

\* array.sort((a, b) => b.score - a.score), scores[i] being the score of
\* arr[i]: descending and stable
sortDescending(arr, scores) ==
  LET n == Len(arr)
      before(j, i) ==
        \/ scores[j] > scores[i]
        \/ scores[j] = scores[i] /\ j < i
  IN  [ k \in 1..n |->
          arr[CHOOSE i \in 1..n : Cardinality({ j \in 1..n : before(j, i) }) = k - 1] ]

sortRecommendations(recommendedWords, frequencies) ==
  LET words == objKeys(recommendedWords)
      filteredWords ==
        SelectSeq(words, LAMBDA w : frequencyOf(frequencies, w) >= minFrequency)
      scoredWords ==
        [ k \in 1..Len(filteredWords) |->
            [ word |-> filteredWords[k],
              score |-> scoreWord(filteredWords[k],
                                  frequencyOf(frequencies, filteredWords[k])),
              construction |-> objGet(recommendedWords, filteredWords[k]) ] ]
      sorted == sortDescending(scoredWords, [ k \in 1..Len(scoredWords) |-> scoredWords[k].score ])
  IN  [ k \in 1..Len(sorted) |->
          [ key |-> sorted[k].word, value |-> sorted[k].construction ] ]

\* ------------------------------------------------------------------------
\* The vocabulary aggregator (stateLogger.js)
\* ------------------------------------------------------------------------

WORD_ADDED == "word_added"

WORD_REMOVED == "word_removed"

bufferSize == 10

\* new VocabularyAggregator() with no aggregate file on disk; logFile is
\* player_vocabulary.jsonl, one event a line
NewAggregator ==
  [ playerStats |-> << >>,
    wordFrequency |-> << >>,
    eventBuffer |-> << >>,
    logFile |-> << >> ]

\* obj[key] || 0
objGetOr0(obj, key) == IF objHas(obj, key) THEN objGet(obj, key) ELSE 0

\* uniqueWords is a Set in a new entry (isSet) and an Array in an entry read
\* back from vocabulary_aggregate.json; items are its members in order
NewPlayerStats(playerId) ==
  [ playerId |-> playerId,
    totalWords |-> 0,
    uniqueWords |-> [ isSet |-> TRUE, items |-> << >> ],
    wordsByLength |-> << >>,
    wordsByFrequency |-> [ common |-> 0, medium |-> 0, rare |-> 0 ] ]

\* the entry getPlayerStats returns, created when the player is new
getPlayerStats(agg, playerId) ==
  IF objHas(agg.playerStats, playerId)
    THEN objGet(agg.playerStats, playerId)
    ELSE NewPlayerStats(playerId)

\* updatePlayerStats: the aggregator as the call leaves it, and whether
\* stats.uniqueWords.add(word) threw (an Array has no add), which is after
\* stats.totalWords++ and before everything else
updatePlayerStats(agg, playerId, word, wordLength, frequencyScore) ==
  LET stats == getPlayerStats(agg, playerId)
      byFrequency == stats.wordsByFrequency
      stats2 ==
        [ stats EXCEPT
            !.totalWords = @ + 1,
            !.uniqueWords.items = IF word \in Range(@) THEN @ ELSE Append(@, word),
            !.wordsByLength = objSet(@, wordLength, objGetOr0(@, wordLength) + 1),
            !.wordsByFrequency =
              IF frequencyScore > 20
                THEN [ byFrequency EXCEPT !.common = @ + 1 ]
              ELSE IF frequencyScore >= 12
                THEN [ byFrequency EXCEPT !.medium = @ + 1 ]
              ELSE [ byFrequency EXCEPT !.rare = @ + 1 ] ]
      counted == [ stats EXCEPT !.totalWords = @ + 1 ]
  IN  IF stats.uniqueWords.isSet
        THEN [ agg |-> [ agg EXCEPT !.playerStats = objSet(@, playerId, stats2) ],
               threw |-> FALSE ]
        ELSE [ agg |-> [ agg EXCEPT !.playerStats = objSet(@, playerId, counted) ],
               threw |-> TRUE ]

updateWordFrequency(agg, word) ==
  [ agg EXCEPT !.wordFrequency = objSet(@, word, objGetOr0(@, word) + 1) ]

\* writeOk: whether writeFileSync appends the lines or throws
flushEvents(agg, writeOk) ==
  IF Len(agg.eventBuffer) = 0 THEN agg
  ELSE IF writeOk
    THEN [ agg EXCEPT !.logFile = @ \o agg.eventBuffer, !.eventBuffer = << >> ]
  ELSE agg

\* a buffer that takes the new event at its front
bufferEvent_front(agg, event, writeOk) ==
  IF Len(agg.eventBuffer) + 1 >= bufferSize
    THEN flushEvents([ agg EXCEPT !.eventBuffer = << event >> \o @ ], writeOk)
    ELSE [ agg EXCEPT !.eventBuffer = << event >> \o @ ]

\* the rest of logEvent once the aggregates are updated
bufferEvent(agg, event, writeOk) ==
  IF Len(agg.eventBuffer) + 1 >= bufferSize
    THEN flushEvents([ agg EXCEPT !.eventBuffer = Append(@, event) ], writeOk)
    ELSE [ agg EXCEPT !.eventBuffer = Append(@, event) ]

\* logEvent: the aggregator as the call leaves it and whether it threw
logEvent(agg, event, writeOk) ==
  IF event.eventType # WORD_ADDED
    THEN [ agg |-> bufferEvent(agg, event, writeOk), threw |-> FALSE ]
  ELSE
    LET updated == updatePlayerStats(agg, event.playerId, event.word, event.wordLength,
                                     event.frequencyScore)
    IN  IF updated.threw THEN updated
        ELSE [ agg |-> bufferEvent(updateWordFrequency(updated.agg, event.word),
                                   event, writeOk),
               threw |-> FALSE ]

\* logStateChange for the events of a snapshot in order, up to the first
\* that throws: the aggregator, the number of events logged, and whether
\* one threw
RECURSIVE logEvents(_, _, _, _)
logEvents(agg, events, writeOk, logged) ==
  IF events = << >> THEN [ agg |-> agg, logged |-> logged, threw |-> FALSE ]
  ELSE
    LET one == logEvent(agg, Head(events), writeOk)
    IN  IF one.threw THEN [ agg |-> one.agg, logged |-> logged, threw |-> TRUE ]
        ELSE logEvents(one.agg, Tail(events), writeOk, logged + 1)

\* vocabulary_aggregate.json: torn says that the file holds only the first
\* part of the JSON text of an aggregate
NoAggregateFile ==
  [ exists |-> FALSE, torn |-> FALSE, playerStats |-> << >>, wordFrequency |-> << >> ]

\* the file as writeFileSync(AGGREGATE_FILE, text) leaves it when the process
\* stops after the file was opened (and truncated) and before the whole text
\* is written
TornAggregateFile ==
  [ exists |-> TRUE, torn |-> TRUE, playerStats |-> << >>, wordFrequency |-> << >> ]

\* saveAggregate: flushEvents, then the aggregate written with uniqueWords
\* as arrays (aggregateOk: whether that writeFileSync succeeds)
saveAggregate(agg, file, writeOk, aggregateOk) ==
  [ agg |-> flushEvents(agg, writeOk),
    file |->
      IF aggregateOk
        THEN [ exists |-> TRUE,
               torn |-> FALSE,
               playerStats |->
                 [ k \in 1..Len(agg.playerStats) |->
                     [ key |-> agg.playerStats[k].key,
                       value |-> [ agg.playerStats[k].value EXCEPT
                                     !.uniqueWords.isSet = FALSE ] ] ],
               wordFrequency |-> agg.wordFrequency ]
        ELSE file ]

\* new VocabularyAggregator() with loadExistingAggregate; JSON.parse throws on
\* a torn file and the catch leaves the new aggregator as it is
loadExistingAggregate(file) ==
  IF file.exists /\ ~file.torn
    THEN [ NewAggregator EXCEPT
             !.playerStats = file.playerStats,
             !.wordFrequency = file.wordFrequency ]
    ELSE NewAggregator

getTopWords(agg, limit) ==
  LET sorted == sortDescending(agg.wordFrequency, [ k \in 1..Len(agg.wordFrequency) |-> agg.wordFrequency[k].value ])
  IN  [ k \in 1..(IF Len(sorted) < limit THEN Len(sorted) ELSE limit) |->
          [ word |-> sorted[k].key, count |-> sorted[k].value ] ]

\* the counts of getRealTimeAnalytics (its times and averages are left out)
getRealTimeAnalytics(agg) ==
  [ totalPlayers |-> Len(agg.playerStats),
    players |->
      [ k \in 1..Len(agg.playerStats) |->
          [ playerId |-> agg.playerStats[k].value.playerId,
            totalWords |-> agg.playerStats[k].value.totalWords,
            uniqueWords |->
              IF agg.playerStats[k].value.uniqueWords.isSet
                THEN Len(agg.playerStats[k].value.uniqueWords.items)
                ELSE "undefined" ] ],
    topWords |-> getTopWords(agg, 10),
    totalUniqueWords |-> Len(agg.wordFrequency) ]

\* getPlayerVocabularyStats: the counts it returns (its times and averages
\* are left out) and the aggregator as the call leaves it; getPlayerStats
\* stores a fresh entry under a playerId the map does not have
getPlayerVocabularyStats(agg, playerId) ==
  LET stats == getPlayerStats(agg, playerId)
  IN  [ agg |->
          IF objHas(agg.playerStats, playerId)
            THEN agg
            ELSE [ agg EXCEPT !.playerStats = objSet(@, playerId, stats) ],
        result |->
          [ playerId |-> stats.playerId,
            totalWords |-> stats.totalWords,
            uniqueWordsCount |->
              IF stats.uniqueWords.isSet THEN Len(stats.uniqueWords.items) ELSE "undefined",
            wordsByLength |-> stats.wordsByLength,
            wordsByFrequency |-> stats.wordsByFrequency ] ]

\* processImageUpdate(payload), without its timestamp
processImageUpdate(payload) ==
  [ type |-> "image", data |-> payload, processed |-> TRUE ]

\* ------------------------------------------------------------------------
\* The worker (worker.js)
\* ------------------------------------------------------------------------

\* previousWordsByPlayer.get(playerIndex) || new Set(): the map is kept as
\* the sequence of its values for the player indices 0, 1, ... it holds, a
\* set as its members in insertion order
previousWordsOf(previousWordsByPlayer, playerIndex) ==
  IF playerIndex + 1 <= Len(previousWordsByPlayer)
    THEN previousWordsByPlayer[playerIndex + 1]
    ELSE << >>

\* previousWordsByPlayer.set(playerIndex, currentSet)
setPreviousWords(previousWordsByPlayer, playerIndex, currentSet) ==
  IF playerIndex + 1 <= Len(previousWordsByPlayer)
    THEN [ previousWordsByPlayer EXCEPT ![playerIndex + 1] = currentSet ]
    ELSE Append(previousWordsByPlayer, currentSet)

\* `player_${playerIndex}`, kept as the pair of its prefix and the index
playerIdOf(playerIndex) == << "player_", playerIndex >>

\* the events detectAndLogStateChanges logs for one player: the added words,
\* then the removed ones
playerEvents(playerIndex, currentWords, previousWords, frequencies, availableLetters) ==
  LET currentSet == uniqueInOrder(toLowerCaseAll(currentWords))
      addedWords ==
        SelectSeq(currentWords, LAMBDA w : toLowerCase(w) \notin Range(previousWords))
      removedWords == SelectSeq(previousWords, LAMBDA w : w \notin Range(currentSet))
      added(word) ==
        [ eventType |-> WORD_ADDED,
          playerId |-> playerIdOf(playerIndex),
          playerIndex |-> playerIndex,
          word |-> toLowerCase(word),
          wordLength |-> Len(toLowerCase(word)),
          frequencyScore |-> frequencyOf(frequencies, toLowerCase(word)),
          lettersUsed |-> split(countsToString(letterCounts(toLowerCase(word)))),
          availableLetters |-> availableLetters ]
      removed(word) ==
        [ eventType |-> WORD_REMOVED,
          playerId |-> playerIdOf(playerIndex),
          playerIndex |-> playerIndex,
          word |-> word,
          wordLength |-> Len(word),
          frequencyScore |-> frequencyOf(frequencies, word),
          lettersUsed |-> << >>,
          availableLetters |-> availableLetters ]
  IN  [ events |->
          [ k \in 1..Len(addedWords) |-> added(addedWords[k]) ]
            \o [ k \in 1..Len(removedWords) |-> removed(removedWords[k]) ],
        summary |->
          [ playerIndex |-> playerIndex,
            addedWords |-> addedWords,
            removedWords |-> removedWords,
            totalWords |-> Len(currentWords) ],
        currentSet |-> currentSet ]

\* the loop of detectAndLogStateChanges from player playerIndex on
RECURSIVE detectFrom(_, _, _, _, _)
detectFrom(playerIndex, wordsPerPlayer, acc, frequencies, availableLetters) ==
  IF playerIndex >= Len(wordsPerPlayer) THEN acc
  ELSE
    LET one ==
          playerEvents(playerIndex, wordsPerPlayer[playerIndex + 1],
                       previousWordsOf(acc.previousWordsByPlayer, playerIndex),
                       frequencies, availableLetters)
    IN  detectFrom(playerIndex + 1, wordsPerPlayer,
                   [ previousWordsByPlayer |->
                       setPreviousWords(acc.previousWordsByPlayer, playerIndex,
                                        one.currentSet),
                     events |-> acc.events \o one.events,
                     changesSummary |->
                       [ totalAdded |->
                           acc.changesSummary.totalAdded + Len(one.summary.addedWords),
                         totalRemoved |->
                           acc.changesSummary.totalRemoved + Len(one.summary.removedWords),
                         byPlayer |-> Append(acc.changesSummary.byPlayer, one.summary) ] ],
                   frequencies, availableLetters)

\* detectAndLogStateChanges: the summary, the map as the call leaves it and
\* the events handed to logStateChange, in order
detectAndLogStateChanges(wordsPerPlayer, previousWordsByPlayer, frequencies, availableLetters) ==
  detectFrom(0, wordsPerPlayer,
             [ previousWordsByPlayer |-> previousWordsByPlayer,
               events |-> << >>,
               changesSummary |->
                 [ totalAdded |-> 0, totalRemoved |-> 0, byPlayer |-> << >> ] ],
             frequencies, availableLetters)

\* detectAndLogStateChanges with its logStateChange calls carried out on the
\* aggregator: when one throws, the call ends there, with the map set for
\* the players before the one whose event threw
detectAndLog(wordsPerPlayer, previousWordsByPlayer, frequencies, availableLetters, agg, writeOk) ==
  LET d == detectAndLogStateChanges(wordsPerPlayer, previousWordsByPlayer, frequencies,
                                    availableLetters)
      lg == logEvents(agg, d.events, writeOk, 0)
      done == d.events[lg.logged + 1].playerIndex
  IN  IF lg.threw
        THEN [ threw |-> TRUE,
               aggregator |-> lg.agg,
               events |-> SubSeq(d.events, 1, lg.logged),
               previousWordsByPlayer |->
                 detectAndLogStateChanges(SubSeq(wordsPerPlayer, 1, done),
                                          previousWordsByPlayer, frequencies,
                                          availableLetters).previousWordsByPlayer,
               changesSummary |-> d.changesSummary ]
        ELSE [ threw |-> FALSE,
               aggregator |-> lg.agg,
               events |-> d.events,
               previousWordsByPlayer |-> d.previousWordsByPlayer,
               changesSummary |-> d.changesSummary ]

\* lastState = null
NoLastState == [ defined |-> FALSE, wordsPerPlayer |-> << >>, availableLetters |-> << >> ]

RECURSIVE removeWords(_, _)
removeWords(words, removedWords) ==
  IF removedWords = << >> THEN words
  ELSE removeWords(removeFirst(words, Head(removedWords)), Tail(removedWords))

\* applyPayload(payload): the payload handed on and lastState as it leaves it
applyPayload(payload, lastState) ==
  IF "addedWords" \in DOMAIN payload \/ "removedWords" \in DOMAIN payload
    THEN
      LET prev ==
            IF lastState.defined THEN lastState
            ELSE [ wordsPerPlayer |-> << << >> >>, availableLetters |-> << >> ]
          removedWords ==
            IF "removedWords" \in DOMAIN payload THEN payload.removedWords ELSE << >>
          addedWords ==
            IF "addedWords" \in DOMAIN payload THEN payload.addedWords ELSE << >>
          words == removeWords(flat(prev.wordsPerPlayer), removedWords) \o addedWords
          availableLetters ==
            IF "availableLetters" \in DOMAIN payload
              THEN payload.availableLetters
              ELSE prev.availableLetters
      IN  [ resolved |-> [ players |-> << words >>, availableLetters |-> availableLetters ],
            lastState |->
              [ defined |-> TRUE,
                wordsPerPlayer |-> << words >>,
                availableLetters |-> availableLetters ] ]
    ELSE
      [ resolved |-> payload,
        lastState |->
          [ defined |-> TRUE,
            wordsPerPlayer |-> normalizeGameData(payload).wordsPerPlayer,
            availableLetters |-> normalizeGameData(payload).availableLetters ] ]

\* ------------------------------------------------------------------------
\* State
\* ------------------------------------------------------------------------

VARIABLES
  pc,      \* the caller of processGameState: "idle", "called" or "returned"
  call,    \* the arguments of the call in progress
  cache,   \* the subsetCache object the caller passes on every call
  ret,     \* what the last call returned
  wpc,                    \* the worker: "idle", "posted" (a message waits) or "replied"
  msg,                    \* the message { kind, payload } posted to the worker
  reply,                  \* the message the worker posted back
  step,                   \* the locals of the handler for the message just handled
  posted,                 \* how many messages have been posted to the worker
  frequencies,            \* dictionaryCache.frequencies
  subsetCache,
  lastState,
  previousFusedState,
  freeListTracker,
  confidenceTracker,      \* its wordConfidences map
  wordVisibilityTracker,
  previousWordsByPlayer,
  aggregator,             \* aggregatorInstance
  aggregateFile,          \* logs/vocabulary_aggregate.json
  workerQueue,            \* server.js: the requests waiting for the worker, oldest first
  sharedWorker,           \* server.js: "null", or "alive" / "dead" for the Worker it holds
  inbox,                  \* the messages posted to the worker it has not handled
  toMain,                 \* what the worker raised and the main thread has not handled
  submitted,              \* how many HTTP requests have reached runWorker
  http,                   \* the state of each HTTP request
  emitted,                \* the io.emit calls made, in order
  journalled,             \* the journal events the worker emitted for each message
  promises,               \* for each HTTP request: how often it was posted, and whose answer settled it
  feed                    \* the vision side resending one snapshot: the snapshot, and what each sending led to

solverVars == << pc, call, cache, ret >>

workerVars ==
  << wpc, msg, reply, step, posted, frequencies, subsetCache, lastState,
     previousFusedState, freeListTracker, confidenceTracker, wordVisibilityTracker,
     previousWordsByPlayer, aggregator, aggregateFile >>

serverVars ==
  << workerQueue, sharedWorker, inbox, toMain, submitted, http, emitted, journalled,
     promises >>

vars == << solverVars, workerVars, serverVars, feed >>

NoCall ==
  [ payload |-> [ players |-> << >>, availableLetters |-> << >> ],
    useIndex |-> FALSE,
    useCache |-> FALSE ]

NoRet ==
  [ result |->
      [ players |-> << >>,
        recommended_words |-> << >>,
        lettersToSteal |-> << >>,
        availableLetters |-> << >> ],
    wordsUsed |-> << >>,
    path |-> "none",
    cacheBefore |-> EmptyCache ]

NoMsg == [ kind |-> "none", payload |-> [ players |-> << >>, availableLetters |-> << >> ] ]

NoReply == [ ok |-> FALSE ]

NoStep == [ handled |-> FALSE ]

\* no snapshot is being resent
NoFeed == [ resending |-> FALSE ]

\* no message handled yet by a worker that was started again
RestartedStep == [ handled |-> FALSE, restarted |-> TRUE ]

\* word_frequencies.json missing: frequencies = {}
NoFrequencies == [ w \in {} |-> 0 ]

\* word_frequencies.json: Zipf scores in quarters; actor is not in the file
\* and tar is below the floor of 1.0
FrequencyTable ==
  [ w \in { W_act, W_cat, W_car, W_at, W_cart, W_tar, W_rat, W_or, W_aboard,
            W_boat, W_dog } |->
      CASE w = W_act -> 18
        [] w = W_cat -> 21
        [] w = W_car -> 22
        [] w = W_at -> 28
        [] w = W_cart -> 16
        [] w = W_tar -> 3
        [] w = W_rat -> 17
        [] w = W_or -> 26
        [] w = W_aboard -> 14
        [] w = W_boat -> 19
        [] w = W_dog -> 21 ]

\* the solver alone: the worker has not started
SolverIdle ==
  /\ pc = "idle"
  /\ call = NoCall
  /\ cache = EmptyCache
  /\ ret = NoRet

\* the worker module as loaded
WorkerIdle ==
  /\ wpc = "idle"
  /\ msg = NoMsg
  /\ reply = NoReply
  /\ step = NoStep
  /\ posted = 0
  /\ subsetCache = EmptyCache
  /\ lastState = NoLastState
  /\ previousFusedState = NoFusedState
  /\ freeListTracker = NewFreeListTracker
  /\ confidenceTracker = NewWordConfidenceTracker
  /\ wordVisibilityTracker = NewWordVisibilityTracker
  /\ previousWordsByPlayer = << >>
  /\ aggregator = loadExistingAggregate(aggregateFile)

\* MaxRequests bounds the HTTP requests of a run
Requests == 1..MaxRequests

\* the server module as loaded: no worker yet, nothing queued
ServerIdle ==
  /\ workerQueue = << >>
  /\ sharedWorker = "null"
  /\ inbox = << >>
  /\ toMain = << >>
  /\ submitted = 0
  /\ http = [ r \in Requests |-> "none" ]
  /\ emitted = << >>
  /\ journalled = [ r \in Requests |-> << >> ]
  /\ promises = [ r \in Requests |-> [ posts |-> 0, settledBy |-> 0 ] ]

\* ------------------------------------------------------------------------
\* Direct calls of processGameState with one cache object kept across calls
\* (as worker.test.js makes them)
\* ------------------------------------------------------------------------

PlayerWordPool == { W_cat, W_boat, W_a }

LooseLetterPool == { << >>, W_or, << "c", "r", "t" >>, W_act }

WordLists(n) == UNION { [ 1..k -> PlayerWordPool ] : k \in 0..n }

\* the words of a snapshot held by one player, or one player per word
PlayerLists ==
  { << ws >> : ws \in WordLists(MaxWords) }
    \cup { [ k \in 1..Len(ws) |-> << ws[k] >> ] : ws \in WordLists(MaxWords) }
    \cup { << << W_act, W_or >> >> }

Payloads ==
  { [ players |-> ps, availableLetters |-> ls ] : ps \in PlayerLists, ls \in LooseLetterPool }

\* the worker passes the index and its cache; the tests pass no index, and
\* a cache or none
CallModes ==
  { [ useIndex |-> TRUE, useCache |-> TRUE ],
    [ useIndex |-> FALSE, useCache |-> TRUE ],
    [ useIndex |-> FALSE, useCache |-> FALSE ] }

SolverInit ==
  /\ feed = NoFeed
  /\ ServerIdle
  /\ aggregateFile = NoAggregateFile
  /\ SolverIdle
  /\ WorkerIdle
  /\ frequencies = NoFrequencies

\* a caller hands a payload to processGameState
Call(payload, useIndex, useCache) ==
  /\ pc = "idle"
  /\ pc' = "called"
  /\ call' = [ payload |-> payload, useIndex |-> useIndex, useCache |-> useCache ]
  /\ UNCHANGED << cache, ret >>
  /\ UNCHANGED << workerVars, serverVars, feed >>

\* processGameState runs to its return statement
Solve ==
  /\ pc = "called"
  /\ \E r \in { processGameState(call.payload, call.useIndex, cache, call.useCache) } :
         /\ ret' = [ result |-> r.result, wordsUsed |-> r.wordsUsed, path |-> r.path,
                    cacheBefore |-> cache ]
         /\ cache' = r.cache
  /\ pc' = "returned"
  /\ UNCHANGED call
  /\ UNCHANGED << workerVars, serverVars, feed >>

\* the caller drops the returned object
Return ==
  /\ pc = "returned"
  /\ pc' = "idle"
  /\ call' = NoCall
  /\ ret' = NoRet
  /\ UNCHANGED cache
  /\ UNCHANGED << workerVars, serverVars, feed >>

SolverNext ==
  \/ \E payload \in Payloads, mode \in CallModes :
       Call(payload, mode.useIndex, mode.useCache)
  \/ Solve
  \/ Return

SolverSpec == SolverInit /\ [][SolverNext]_vars

\* ------------------------------------------------------------------------
\* The worker handling game-state messages one after the other
\* ------------------------------------------------------------------------

\* the raw snapshots the vision side may send
RawPlayerLists ==
  { << >>,
    << << >> >>,
    << << W_dog >> >>,
    << << W_cat >> >>,
    << << W_car >> >>,
    << << W_ct >> >>,
    << << W_cat, W_ct >> >>,
    << << W_cat >>, << W_dog >> >>,
    << << W_at >> >>,
    << << W_catdog >> >>,
    << << W_cart, W_car >> >>,
    << << W_catx, W_cat >> >>,
    << << W_Cat >> >>,
    << << W_cat, W_dog >> >>,
    << << W_cat >>, << >> >>,
    << << W_cat, W_cat >> >> }

\* the delta form of worker.test.js: one word added, the loose letters given
DeltaPayload == [ addedWords |-> << W_boat >>, availableLetters |-> W_or ]

RawPayloads ==
  { [ players |-> ps, availableLetters |-> << >> ] : ps \in RawPlayerLists }
    \cup { [ players |-> << << W_Cat >> >>, availableLetters |-> W_or ],
           [ players |-> << << W_dog >> >>,
             availableLetters |-> << "C", "-", "a", "R", "t" >> ],
           [ players |-> << << W_ar >> >>, availableLetters |-> << "c" >> ],
           DeltaPayload }

\* vocabulary_aggregate.json as an earlier run of the worker left it: saved
\* after the snapshot [[cat]] was journalled
SavedAggregateFile ==
  saveAggregate(detectAndLog(<< << W_cat >> >>, << >>, FrequencyTable, << >>,
                             NewAggregator, TRUE).aggregator,
                NoAggregateFile, TRUE, TRUE).file

WorkerInit ==
  /\ feed = NoFeed
  /\ SolverIdle
  /\ ServerIdle
  /\ frequencies \in { NoFrequencies, FrequencyTable }
  /\ aggregateFile \in
       IF frequencies = NoFrequencies
         THEN { NoAggregateFile }
         ELSE { NoAggregateFile, SavedAggregateFile }
  /\ WorkerIdle

\* the main thread posts { kind: 'game-state', payload } to the worker
Post(payload) ==
  /\ wpc = "idle"
  /\ posted < MaxMessages
  /\ wpc' = "posted"
  /\ posted' = posted + 1
  /\ msg' = [ kind |-> "game-state", payload |-> payload ]
  /\ UNCHANGED << reply, step, frequencies, subsetCache, lastState, previousFusedState,
                  freeListTracker, confidenceTracker, wordVisibilityTracker,
                  previousWordsByPlayer, aggregator, aggregateFile >>
  /\ UNCHANGED << solverVars, serverVars, feed >>

\* the message handler for kind 'game-state', up to its postMessage: the
\* reply { ok: true, result }, or { ok: false, error } from the catch when a
\* logStateChange call threw
HandleGameState ==
  /\ wpc = "posted"
  /\ msg.kind = "game-state"
  /\ \E f \in { fuseData(msg.payload, previousFusedState, freeListTracker,
                         confidenceTracker, wordVisibilityTracker) } :
     \E n \in { normalizeGameData(f.fused) } :
     \E writeOk \in BOOLEAN :
     \E d \in { detectAndLog(n.wordsPerPlayer, previousWordsByPlayer, frequencies,
                             n.availableLetters, aggregator, writeOk) } :
     \E a \in { applyPayload(f.fused, lastState) } :
     \E s \in { processGameState(a.resolved, TRUE, subsetCache, TRUE) } :
       /\ freeListTracker' = f.freeListTracker
       /\ confidenceTracker' = f.confidenceTracker
       /\ wordVisibilityTracker' = f.wordVisibilityTracker
       /\ previousWordsByPlayer' = d.previousWordsByPlayer
       /\ aggregator' = d.aggregator
       /\ step' =
            [ handled |-> TRUE,
              threw |-> d.threw,
              raw |-> normalizeGameData(msg.payload).wordsPerPlayer,
              fused |-> f.fused,
              locals |-> f.locals,
              previousFusedState |-> previousFusedState,
              lastState |-> lastState,
              previousWordsByPlayer |-> previousWordsByPlayer,
              rawWordCalls |-> wordVisibilityTracker.rawWordCalls,
              wordConfidences |-> confidenceTracker,
              events |-> d.events,
              enumerated |-> IF d.threw THEN << >> ELSE s.result.recommended_words ]
       /\ IF d.threw
            THEN /\ reply' = [ ok |-> FALSE, error |-> "TypeError" ]
                 /\ UNCHANGED << previousFusedState, lastState, subsetCache >>
            ELSE
                /\ previousFusedState' =
                     [ defined |-> TRUE,
                       words |-> flat(n.wordsPerPlayer),
                       availableLetters |-> n.availableLetters ]
                /\ lastState' = a.lastState
                /\ subsetCache' = s.cache
                /\ reply' =
                     [ ok |-> TRUE,
                       result |->
                         [ players |-> s.result.players,
                           recommended_words |->
                             IF DOMAIN frequencies # {}
                               THEN sortRecommendations(s.result.recommended_words,
                                                        frequencies)
                               ELSE s.result.recommended_words,
                           lettersToSteal |-> s.result.lettersToSteal,
                           availableLetters |-> s.result.availableLetters,
                           _analytics |->
                             [ changes |-> d.changesSummary,
                               vocabularyStats |-> getRealTimeAnalytics(d.aggregator) ] ] ]
  /\ wpc' = "replied"
  /\ UNCHANGED << msg, posted, frequencies, aggregateFile >>
  /\ UNCHANGED << solverVars, serverVars, feed >>

\* the main thread takes the reply
Deliver ==
  /\ wpc = "replied"
  /\ wpc' = "idle"
  /\ msg' = NoMsg
  /\ reply' = NoReply
  /\ step' = NoStep
  /\ UNCHANGED << posted, frequencies, subsetCache, lastState, previousFusedState,
                  freeListTracker, confidenceTracker, wordVisibilityTracker,
                  previousWordsByPlayer, aggregator, aggregateFile >>
  /\ UNCHANGED << solverVars, serverVars, feed >>

WorkerNext ==
  \/ \E payload \in RawPayloads : Post(payload)
  \/ HandleGameState
  \/ Deliver

WorkerSpec == WorkerInit /\ [][WorkerNext]_vars


\* ------------------------------------------------------------------------
\* The journal alone: fused snapshots handed to detectAndLogStateChanges,
\* the aggregator's timer, and restarts of the worker
\* ------------------------------------------------------------------------

\* fused per-player word lists
JournalSnapshots ==
  { << << W_cat, W_act >>, << W_dog >> >>,
    << << W_car, W_tar >>, << W_rat >> >>,
    << << W_cat >> >>,
    << << >> >> }

JournalInit ==
  /\ feed = NoFeed
  /\ SolverIdle
  /\ ServerIdle
  /\ frequencies = FrequencyTable
  /\ aggregateFile = NoAggregateFile
  /\ WorkerIdle

\* detectAndLogStateChanges(wordsPerPlayer, previousWordsByPlayer,
\* frequencies, availableLetters) as the handler calls it
LogSnapshot(wordsPerPlayer, writeOk) ==
  /\ posted < MaxMessages
  /\ posted' = posted + 1
  /\ \E d \in { detectAndLog(wordsPerPlayer, previousWordsByPlayer, frequencies, << >>,
                             aggregator, writeOk) } :
       /\ previousWordsByPlayer' = d.previousWordsByPlayer
       /\ aggregator' = d.aggregator
       /\ step' =
            [ handled |-> TRUE,
              threw |-> d.threw,
              wordsPerPlayer |-> wordsPerPlayer,
              previousWordsByPlayer |-> previousWordsByPlayer,
              events |-> d.events ]
  /\ UNCHANGED << wpc, msg, reply, frequencies, subsetCache, lastState, previousFusedState,
                  freeListTracker, confidenceTracker, wordVisibilityTracker,
                  aggregateFile >>
  /\ UNCHANGED << solverVars, serverVars, feed >>

\* the 30-second timer of getAggregator: saveAggregate()
SaveAggregate(writeOk, aggregateOk) ==
  /\ \E saved \in { saveAggregate(aggregator, aggregateFile, writeOk, aggregateOk) } :
       /\ aggregator' = saved.agg
       /\ aggregateFile' = saved.file
  /\ UNCHANGED << wpc, msg, reply, step, posted, frequencies, subsetCache, lastState,
                  previousFusedState, freeListTracker, confidenceTracker,
                  wordVisibilityTracker, previousWordsByPlayer >>
  /\ UNCHANGED << solverVars, serverVars, feed >>

\* the worker starts again: module state as loaded, the aggregator read back
\* from vocabulary_aggregate.json; player_vocabulary.jsonl stays on disk
Restart ==
  /\ aggregator' =
       [ loadExistingAggregate(aggregateFile) EXCEPT !.logFile = aggregator.logFile ]
  /\ previousWordsByPlayer' = << >>
  /\ step' = RestartedStep
  /\ UNCHANGED << wpc, msg, reply, posted, frequencies, subsetCache, lastState,
                  previousFusedState, freeListTracker, confidenceTracker,
                  wordVisibilityTracker, aggregateFile >>
  /\ UNCHANGED << solverVars, serverVars, feed >>

\* the process stops inside saveAggregate, after flushEvents and while
\* writeFileSync(AGGREGATE_FILE, ...) is writing, and the worker starts again
StopDuringSave(writeOk) ==
  /\ aggregateFile' = TornAggregateFile
  /\ aggregator' =
       [ loadExistingAggregate(aggregateFile') EXCEPT
           !.logFile = flushEvents(aggregator, writeOk).logFile ]
  /\ previousWordsByPlayer' = << >>
  /\ step' = RestartedStep
  /\ UNCHANGED << wpc, msg, reply, posted, frequencies, subsetCache, lastState,
                  previousFusedState, freeListTracker, confidenceTracker,
                  wordVisibilityTracker >>
  /\ UNCHANGED << solverVars, serverVars, feed >>

JournalNext ==
  \/ \E wordsPerPlayer \in JournalSnapshots : \E writeOk \in BOOLEAN :
       LogSnapshot(wordsPerPlayer, writeOk)
  \/ \E writeOk \in BOOLEAN : \E aggregateOk \in BOOLEAN :
       SaveAggregate(writeOk, aggregateOk)
  \/ Restart
  \/ \E writeOk \in BOOLEAN : StopDuringSave(writeOk)

JournalSpec == JournalInit /\ [][JournalNext]_vars

\* ------------------------------------------------------------------------
\* The server's worker queue (server.js): HTTP requests, the shared worker
\* as seen from the main thread, and the push channel
\* ------------------------------------------------------------------------

\* the kinds the routes hand to runWorker: POST /update-data, GET /analytics
RequestKinds == { "game-state", "analytics" }

\* the journal events a game-state message can make the worker emit
JournalledEvents == { << >>, << WORD_ADDED >>, << WORD_ADDED, WORD_REMOVED >> }

\* a runWorker that posts whatever the queue holds
postsAtOnce_always(queue) == Len(queue) >= 1

\* if (workerQueue.length === 1) in runWorker
postsAtOnce(queue) == Len(queue) = 1

\* a queue whose shift() takes the newest entry
queueShift_newest(queue) ==
  [ next |-> queue[Len(queue)], rest |-> SubSeq(queue, 1, Len(queue) - 1) ]

\* workerQueue.shift() on a queue that is not empty
queueShift(queue) == [ next |-> Head(queue), rest |-> Tail(queue) ]

\* sharedWorker.postMessage({ kind, payload })
postMessage(box, request) == Append(box, [ kind |-> request.kind, payload |-> request.id ])

\* what the route of request does once its await runWorker(...) resolved
\* with workerResponse: the io.emit calls of POST /update-data, none for GET
\* /analytics
emitsOf(request, workerResponse) ==
  LET logEntries ==
        IF "logEntries" \in DOMAIN workerResponse THEN workerResponse.logEntries ELSE << >>
  IN  IF request.kind = "game-state"
        THEN << [ topic |-> "data", request |-> request.id,
                  message |-> workerResponse.result ] >>
             \o IF Len(logEntries) > 0
                  THEN << [ topic |-> "move-log", request |-> request.id,
                            entries |-> logEntries ] >>
                  ELSE << >>
        ELSE << >>

ServerInit ==
  /\ feed = NoFeed
  /\ SolverIdle
  /\ frequencies = NoFrequencies
  /\ aggregateFile = NoAggregateFile
  /\ WorkerIdle
  /\ ServerIdle

\* a route calls runWorker(kind, payload): the request is queued, and posted
\* when it is alone in the queue, to a worker created if there is none
Submit(kind) ==
  /\ submitted < MaxRequests
  /\ submitted' = submitted + 1
  /\ http' = [ http EXCEPT ![submitted + 1] = "waiting" ]
  /\ workerQueue' = Append(workerQueue, [ id |-> submitted + 1, kind |-> kind ])
  /\ IF postsAtOnce(workerQueue')
       THEN /\ sharedWorker' = IF sharedWorker = "null" THEN "alive" ELSE sharedWorker
            /\ inbox' = postMessage(inbox, [ id |-> submitted + 1, kind |-> kind ])
            /\ promises' = [ promises EXCEPT ![submitted + 1].posts = @ + 1 ]
       ELSE UNCHANGED << sharedWorker, inbox, promises >>
  /\ UNCHANGED << toMain, emitted, journalled >>
  /\ UNCHANGED << solverVars, workerVars, feed >>

\* the worker handles its oldest message and posts { ok: true, result } or,
\* from its catch, { ok: false, error }
WorkerReply ==
  /\ sharedWorker = "alive"
  /\ inbox # << >>
  /\ inbox' = Tail(inbox)
  /\ \E ok \in BOOLEAN :
       toMain' =
         Append(toMain,
                [ type |-> "message",
                  from |-> Head(inbox).payload,
                  data |-> IF ok THEN [ ok |-> TRUE, result |-> Head(inbox).payload ]
                           ELSE [ ok |-> FALSE, error |-> "error" ] ])
  /\ \E events \in JournalledEvents :
       journalled' =
         [ journalled EXCEPT
             ![Head(inbox).payload] =
               IF Head(inbox).kind = "game-state" THEN events ELSE << >> ]
  /\ UNCHANGED << workerQueue, sharedWorker, submitted, http, emitted, promises >>
  /\ UNCHANGED << solverVars, workerVars, feed >>

\* the worker thread dies on the message it is handling: an 'error' event
WorkerError ==
  /\ sharedWorker = "alive"
  /\ inbox # << >>
  /\ inbox' = << >>
  /\ sharedWorker' = "dead"
  /\ toMain' = Append(toMain, [ type |-> "error", from |-> Head(inbox).payload ])
  /\ UNCHANGED << workerQueue, submitted, http, emitted, journalled, promises >>
  /\ UNCHANGED << solverVars, workerVars, feed >>

\* onWorkerMessage(msg), with the route's continuation after its await
OnWorkerMessage ==
  /\ toMain # << >>
  /\ Head(toMain).type = "message"
  /\ toMain' = Tail(toMain)
  /\ IF workerQueue = << >>
       THEN UNCHANGED << workerQueue, inbox, http, emitted, promises >>
       ELSE
         \E shifted \in { queueShift(workerQueue) } :
           /\ workerQueue' = shifted.rest
           /\ promises' =
                [ r \in Requests |->
                    [ posts |->
                        IF shifted.rest # << >> /\ r = Head(shifted.rest).id
                          THEN promises[r].posts + 1
                          ELSE promises[r].posts,
                      settledBy |->
                        IF r = shifted.next.id THEN Head(toMain).from
                        ELSE promises[r].settledBy ] ]
           /\ IF Head(toMain).data.ok
                THEN /\ http' = [ http EXCEPT ![shifted.next.id] = "resolved" ]
                     /\ emitted' = emitted \o emitsOf(shifted.next, Head(toMain).data)
                ELSE /\ http' = [ http EXCEPT ![shifted.next.id] = "rejected" ]
                     /\ UNCHANGED emitted
           /\ inbox' = IF shifted.rest # << >>
                         THEN postMessage(inbox, Head(shifted.rest))
                         ELSE inbox
  /\ UNCHANGED << sharedWorker, submitted, journalled >>
  /\ UNCHANGED << solverVars, workerVars, feed >>

\* the handler of the worker's 'error' event
OnWorkerError ==
  /\ toMain # << >>
  /\ Head(toMain).type = "error"
  /\ toMain' = Tail(toMain)
  /\ IF workerQueue = << >>
       THEN UNCHANGED << workerQueue, http, promises >>
       ELSE /\ workerQueue' = queueShift(workerQueue).rest
            /\ http' = [ http EXCEPT ![queueShift(workerQueue).next.id] = "rejected" ]
            /\ promises' =
                 [ promises EXCEPT
                     ![queueShift(workerQueue).next.id].settledBy = Head(toMain).from ]
  /\ sharedWorker' = "null"
  /\ UNCHANGED << inbox, submitted, emitted, journalled >>
  /\ UNCHANGED << solverVars, workerVars, feed >>

ServerNext ==
  \/ \E kind \in RequestKinds : Submit(kind)
  \/ WorkerReply
  \/ WorkerError
  \/ OnWorkerMessage
  \/ OnWorkerError

\* the worker answers every message it holds, by a reply or by dying, and the
\* main thread's event loop runs every handler that is due
ServerSpec ==
  /\ ServerInit
  /\ [][ServerNext]_vars
  /\ WF_vars(WorkerReply \/ WorkerError)
  /\ WF_vars(OnWorkerMessage \/ OnWorkerError)

\* ------------------------------------------------------------------------
\* The vision side sending one and the same snapshot again and again
\* ------------------------------------------------------------------------

\* MaxReplays bounds the sendings of the snapshot
MaxReplays == 10

\* what the handler reads when it fuses a snapshot and journals the changes
fusionState ==
  [ previousFusedState |-> previousFusedState,
    freeListTracker |-> freeListTracker,
    confidenceTracker |-> confidenceTracker,
    wordVisibilityTracker |-> wordVisibilityTracker,
    previousWordsByPlayer |-> previousWordsByPlayer ]

ReplayInit ==
  /\ SolverIdle
  /\ ServerIdle
  /\ frequencies \in { NoFrequencies, FrequencyTable }
  /\ aggregateFile = NoAggregateFile
  /\ WorkerIdle
  /\ feed \in { [ resending |-> TRUE, payload |-> p, sendings |-> << >> ] :
                  p \in RawPayloads }

\* the main thread posts the snapshot once more
Resend ==
  /\ wpc = "idle"
  /\ feed.resending
  /\ Len(feed.sendings) < MaxReplays
  /\ wpc' = "posted"
  /\ posted' = posted + 1
  /\ msg' = [ kind |-> "game-state", payload |-> feed.payload ]
  /\ UNCHANGED << reply, step, frequencies, subsetCache, lastState, previousFusedState,
                  freeListTracker, confidenceTracker, wordVisibilityTracker,
                  previousWordsByPlayer, aggregator, aggregateFile >>
  /\ UNCHANGED << solverVars, serverVars, feed >>

\* the main thread takes the reply; the sending is noted with the fused
\* lists, the journal events and the state the handler left behind
TakeReply ==
  /\ wpc = "replied"
  /\ feed.resending
  /\ wpc' = "idle"
  /\ msg' = NoMsg
  /\ reply' = NoReply
  /\ step' = NoStep
  /\ feed' = [ feed EXCEPT !.sendings =
                 Append(@, [ fused |-> step.fused.players,
                             events |-> step.events,
                             after |-> fusionState ]) ]
  /\ UNCHANGED << posted, frequencies, subsetCache, lastState, previousFusedState,
                  freeListTracker, confidenceTracker, wordVisibilityTracker,
                  previousWordsByPlayer, aggregator, aggregateFile >>
  /\ UNCHANGED << solverVars, serverVars >>

ReplayNext ==
  \/ Resend
  \/ HandleGameState
  \/ TakeReply

ReplaySpec == ReplayInit /\ [][ReplayNext]_vars

\* ------------------------------------------------------------------------
\* The worker answering requests that only read, between snapshots
\* ------------------------------------------------------------------------

\* a playerId no snapshot of JournalSnapshots has a player for
NeverPlayed == playerIdOf(2)

\* the requests the server posts besides game-state: an image's metadata,
\* GET /analytics and GET /analytics/player/:playerId
ReadRequests ==
  { [ kind |-> "image", payload |-> << [ key |-> "format", value |-> "jpeg" ] >> ],
    [ kind |-> "analytics", payload |-> << >> ] }
  \cup { [ kind |-> "player-stats", payload |-> << [ key |-> "playerId", value |-> id ] >> ] :
           id \in { playerIdOf(0), playerIdOf(1), NeverPlayed } }

\* parentPort.on('message') for the kinds image, analytics and player-stats,
\* the reply posted included (step.handled marks a game-state message)
HandleReadRequest(request) ==
  /\ \E answered \in
        { IF request.kind = "image"
            THEN [ agg |-> aggregator, result |-> processImageUpdate(request.payload) ]
          ELSE IF request.kind = "analytics"
            THEN [ agg |-> aggregator, result |-> getRealTimeAnalytics(aggregator) ]
          ELSE getPlayerVocabularyStats(aggregator,
                 IF objHas(request.payload, "playerId")
                   THEN objGet(request.payload, "playerId")
                   ELSE playerIdOf(0)) } :
       /\ aggregator' = answered.agg
       /\ reply' = [ ok |-> TRUE, result |-> answered.result ]
  /\ step' = [ handled |-> FALSE, answered |-> request ]
  /\ UNCHANGED << wpc, msg, posted, frequencies, subsetCache, lastState, previousFusedState,
                  freeListTracker, confidenceTracker, wordVisibilityTracker,
                  previousWordsByPlayer, aggregateFile >>
  /\ UNCHANGED << solverVars, serverVars, feed >>

ReadNext ==
  \/ \E wordsPerPlayer \in JournalSnapshots : LogSnapshot(wordsPerPlayer, TRUE)
  \/ \E request \in ReadRequests : HandleReadRequest(request)

ReadSpec == JournalInit /\ [][ReadNext]_vars
\* ------------------------------------------------------------------------
\* Properties of processGameState (checked under SolverSpec)
\* ------------------------------------------------------------------------

\* occurrences of a character in a string
Occ(ch, str) == Cardinality({ k \in 1..Len(str) : str[k] = ch })

\* two strings with the same letters
SameLetters(s, t) == \A ch \in LowerChars : Occ(ch, s) = Occ(ch, t)

\* the player words of the snapshot of the call, normalized
SnapshotWords ==
  { stripNonLetters(toLowerCase(w)) : w \in Range(flat(call.payload.players)) } \ { << >> }

\* the loose letters of the snapshot of the call, normalized
SnapshotLoose == stripNonLetters(toLowerCase(call.payload.availableLetters))

Recommended == ret.result.recommended_words

Targets == { Recommended[k].key : k \in 1..Len(Recommended) }

\* the blocks recorded for a target, the few first of which are whole player
\* words (wordsUsed) and the others single loose letters
BlocksOf(T) == objGet(Recommended, T)

WordBlocksOf(T) == objGet(ret.wordsUsed, T)

LetterBlocksOf(T) ==
  SubSeq(BlocksOf(T), Len(WordBlocksOf(T)) + 1, Len(BlocksOf(T)))

\* C1: the blocks of every recommended target account for its letters
\* exactly, every block of more than one letter is a whole player word of the
\* snapshot, and the single loose letters among the blocks are within the
\* loose letters of the snapshot.
C1_BlocksAccountForTarget ==
  pc = "returned" =>
    \A T \in Targets :
      /\ SameLetters(flat(BlocksOf(T)), T)
      /\ \A j \in 1..Len(BlocksOf(T)) :
           Len(BlocksOf(T)[j]) > 1 => BlocksOf(T)[j] \in SnapshotWords
      /\ SubSeq(BlocksOf(T), 1, Len(WordBlocksOf(T))) = WordBlocksOf(T)
      /\ \A j \in 1..Len(WordBlocksOf(T)) :
           /\ WordBlocksOf(T)[j] \in SnapshotWords
           /\ \A i \in 1..Len(WordBlocksOf(T)) :
                i # j => WordBlocksOf(T)[i] # WordBlocksOf(T)[j]
      /\ \A j \in 1..Len(LetterBlocksOf(T)) : Len(LetterBlocksOf(T)[j]) = 1
      /\ \A ch \in LowerChars :
           Occ(ch, flat(LetterBlocksOf(T))) <= Occ(ch, SnapshotLoose)

\* cat and boat held, o and r loose: actor is recommended as cat + o + r and
\* aboard is not recommended
C1_Witness ==
  /\ pc = "returned"
  /\ SnapshotWords = { W_cat, W_boat }
  /\ SnapshotLoose = W_or
  /\ W_actor \in Targets
  /\ BlocksOf(W_actor) = << W_cat, << "o" >>, << "r" >> >>
  /\ W_aboard \notin Targets

\* C2: no recommended target is built from loose letters only when those
\* letters are the letters of one player word, and no target is built from
\* one player word alone.
C2_NoPureAnagram ==
  pc = "returned" =>
    /\ \A T \in Targets :
         /\ WordBlocksOf(T) = << >> =>
              \A w \in SnapshotWords : ~SameLetters(flat(BlocksOf(T)), w)
         /\ \A w \in SnapshotWords : BlocksOf(T) # << w >>
    /\ (SnapshotWords = { W_cat } /\ SnapshotLoose = << >>) => W_act \notin Targets

\* cat held and a, c, t loose: act could be laid from the loose letters alone
\* and is not recommended
C2_Witness ==
  /\ pc = "returned"
  /\ SnapshotWords = { W_cat }
  /\ SnapshotLoose = W_act
  /\ W_act \notin Targets

\* C3: every recommended target has at least 3 letters and at least 2
\* blocks; an empty snapshot and a snapshot of one word without loose letters
\* have no recommendation.
C3_LengthAndBlockFloor ==
  pc = "returned" =>
    /\ \A T \in Targets : Len(T) >= 3 /\ Len(BlocksOf(T)) >= 2
    /\ (Len(flat(call.payload.players)) <= 1 /\ SnapshotLoose = << >>) =>
         Recommended = << >>

\* the word a held and c, r, t loose: the dictionary word at could be laid as
\* a + t, other words are recommended, at is not
C3_Witness ==
  /\ pc = "returned"
  /\ SnapshotWords = { W_a }
  /\ SnapshotLoose = << "c", "r", "t" >>
  /\ W_car \in Targets
  /\ W_at \notin Targets

\* occurrences of a character in the words of a set, and their total length
RECURSIVE OccIn(_, _)
OccIn(ch, S) ==
  IF S = {} THEN 0
  ELSE LET w == CHOOSE v \in S : TRUE IN Occ(ch, w) + OccIn(ch, S \ { w })

RECURSIVE LenOf(_)
LenOf(S) ==
  IF S = {} THEN 0
  ELSE LET w == CHOOSE v \in S : TRUE IN Len(w) + LenOf(S \ { w })

\* a set of distinct player words, used whole, and loose letters that lay T
\* additively
LaysTarget(S, T) ==
  LET rest(ch) == Occ(ch, T) - OccIn(ch, S)
      restLen == Len(T) - LenOf(S)
  IN  /\ \A ch \in LowerChars : rest(ch) >= 0 /\ rest(ch) <= Occ(ch, SnapshotLoose)
      /\ Cardinality(S) + restLen >= 2
      /\ S = {} => \A w \in SnapshotWords : ~SameLetters(w, T)

\* C4: every dictionary word of at least 3 letters that some set of distinct
\* player words, used whole, and some of the loose letters lay additively is
\* recommended.
C4_Complete ==
  pc = "returned" =>
    \A i \in 1..Len(Dict) :
      (Len(Dict[i]) >= 3 /\ \E S \in SUBSET SnapshotWords : LaysTarget(S, Dict[i]))
        => Dict[i] \in Targets

\* cat and the word a held and c, r, t loose: cart is laid by cat + r and by
\* a + c + r + t, and is recommended
C4_Witness ==
  /\ pc = "returned"
  /\ SnapshotWords = { W_cat, W_a }
  /\ LaysTarget({ W_cat }, W_cart)
  /\ LaysTarget({ W_a }, W_cart)
  /\ ~LaysTarget({ W_cat, W_a }, W_cart)
  /\ W_cart \in Targets

\* C5: lettersToSteal of a target is the number of single loose letters among
\* its blocks, a whole player word never counting.
C5_LettersToStealCountsLooseLetters ==
  pc = "returned" =>
    \A T \in Targets :
      /\ objHas(ret.result.lettersToSteal, T)
      /\ objGet(ret.result.lettersToSteal, T) = Len(LetterBlocksOf(T))

\* C6: what a call returns is what a call on the same snapshot returns when
\* no earlier call has left anything in the cache.
C6_SameAsColdCall ==
  pc = "returned" =>
    LET cold == processGameState(call.payload, call.useIndex, EmptyCache, FALSE)
    IN  /\ ret.result.recommended_words = cold.result.recommended_words
        /\ ret.result.lettersToSteal = cold.result.lettersToSteal


\* C23: for every word of lettersToSteal the value N satisfies
\* 1 <= N <= length of the word.
C23_BetweenOneAndLength ==
  pc = "returned" =>
    \A k \in 1..Len(ret.result.lettersToSteal) :
      /\ 1 <= ret.result.lettersToSteal[k].value
      /\ ret.result.lettersToSteal[k].value <= Len(ret.result.lettersToSteal[k].key)

\* C23 as amended: for every word of lettersToSteal the value N satisfies
\* 0 <= N <= length of the word.
C23_BetweenZeroAndLength ==
  pc = "returned" =>
    \A k \in 1..Len(ret.result.lettersToSteal) :
      /\ 0 <= ret.result.lettersToSteal[k].value
      /\ ret.result.lettersToSteal[k].value <= Len(ret.result.lettersToSteal[k].key)

\* act and or held: actor is laid by the two words and needs no letter
C23_Witness ==
  /\ pc = "returned"
  /\ SnapshotWords = { W_act, W_or }
  /\ objHas(ret.result.lettersToSteal, W_actor)
  /\ objGet(ret.result.lettersToSteal, W_actor) = 0
  /\ BlocksOf(W_actor) = << W_act, W_or >>

\* the recommended targets of a call on the same snapshot with an empty cache
ColdTargets ==
  Range(objKeys(processGameState(call.payload, call.useIndex, EmptyCache, TRUE)
                  .result.recommended_words))

\* C28: a call that extends the cached subset tables by the one new word of
\* its snapshot returns the same set of recommended targets as a call on
\* that snapshot that builds the tables in an empty cache.
C28_ExtensionSameTargetsAsCold ==
  (pc = "returned" /\ ret.path = "extend") => Targets = ColdTargets

\* the word a cached, then a snapshot holding cat and a with c, r, t loose:
\* the tables are extended, the targets are those of a cold call, and cart
\* is laid otherwise than by the cold call
C28_Witness ==
  /\ pc = "returned"
  /\ ret.path = "extend"
  /\ ret.cacheBefore.playerWordsUnique = << W_a >>
  /\ cache.playerWordsUnique = << W_a, W_cat >>
  /\ W_cart \in Targets
  /\ Targets = ColdTargets
  /\ ret.result.recommended_words #
       processGameState(call.payload, call.useIndex, EmptyCache, TRUE)
         .result.recommended_words

\* the cached words whose bits are set in a mask
MaskWords(mask) ==
  { cache.playerWordsUnique[i + 1] :
      i \in { j \in 0..(Len(cache.playerWordsUnique) - 1) : hasBit(mask, j) } }

\* C29: after a call that uses a subset cache, the cache holds 2^n entries
\* for the n distinct player words of the snapshot; subsetCounts[mask] is the
\* sum of the letter counts of the cached words whose bits are set in mask
\* and subsetWords[mask] holds exactly those words; after an extension the
\* entries of the masks below 2^(n-1) are those the cache held before.
C29_CacheTablesExact ==
  (pc = "returned" /\ call.useCache) =>
    LET n == Cardinality(SnapshotWords)
    IN  /\ cache.defined
        /\ Len(cache.playerWordsUnique) = n
        /\ Range(cache.playerWordsUnique) = SnapshotWords
        /\ DOMAIN cache.subsetCounts = 0..(pow2(n) - 1)
        /\ DOMAIN cache.subsetWords = 0..(pow2(n) - 1)
        /\ \A mask \in 0..(pow2(n) - 1) :
             /\ \A i \in Idx :
                  cache.subsetCounts[mask][i] = OccIn(Chr[i + 1], MaskWords(mask))
             /\ Range(cache.subsetWords[mask]) = MaskWords(mask)
             /\ Len(cache.subsetWords[mask]) = Cardinality(MaskWords(mask))
        /\ ret.path = "extend" =>
             \A mask \in 0..(pow2(n - 1) - 1) :
               /\ cache.subsetCounts[mask] = ret.cacheBefore.subsetCounts[mask]
               /\ cache.subsetWords[mask] = ret.cacheBefore.subsetWords[mask]

\* cat cached, then a snapshot holding boat and cat: four masks, the two of
\* the old cache kept
C29_Witness ==
  /\ pc = "returned"
  /\ call.useCache
  /\ ret.path = "extend"
  /\ ret.cacheBefore.playerWordsUnique = << W_cat >>
  /\ flat(call.payload.players) = << W_boat, W_cat >>
  /\ cache.playerWordsUnique = << W_cat, W_boat >>
  /\ cache.subsetWords[3] = << W_cat, W_boat >>

RawPlayers == step.raw

\* the fused snapshot fuseData returned for it, player by player
FusedPlayers == step.fused.players

FusedWords == Range(flat(FusedPlayers))

\* the words of the previous fused state, as the handler found it
PreviousFusedWords == Range(step.previousFusedState.words)

\* the words of the current raw snapshot, lowercase and trimmed
CurrentRawWords == Range(step.locals.rawInputWords)

\* the words of the raw snapshot handled just before, lowercase and trimmed
PrecedingRawWords ==
  IF step.rawWordCalls = << >> THEN {}
  ELSE Range(step.rawWordCalls[Len(step.rawWordCalls)])

\* what the correction pass made of the raw words of player p, and of all
CorrectedOf(p) ==
  Range(flat([ k \in 1..Len(step.locals.corrections[p]) |->
                 step.locals.corrections[p][k].words ]))

CorrectedWords == UNION { CorrectedOf(p) : p \in 1..Len(step.locals.corrections) }

\* the words obtained from w by inserting one letter
InsertionsOf(w) == { insertAt(w, pos, ch) : pos \in 0..Len(w), ch \in LowerChars }

\* C7: every word of every player list of the fused snapshot has at least 3
\* letters; a raw word of fewer than 3 letters contributes nothing, or one
\* dictionary word of at least 3 letters that is the raw word with one letter
\* inserted; and a fused word of a player is such a contribution of that
\* player's raw words or a word of the previous fused state.
C7_FusedWordsHaveThreeLetters ==
  wpc = "replied" =>
    /\ \A p \in 1..Len(FusedPlayers) : \A k \in 1..Len(FusedPlayers[p]) :
         /\ Len(FusedPlayers[p][k]) >= 3
         /\ FusedPlayers[p][k] \in CorrectedOf(p) \cup PreviousFusedWords
    /\ \A p \in 1..Len(RawPlayers) : \A k \in 1..Len(RawPlayers[p]) :
         Len(RawPlayers[p][k]) < 3 =>
           \/ step.locals.corrections[p][k].words = << >>
           \/ \E d \in dictSet :
                /\ Len(d) >= 3
                /\ d \in InsertionsOf(trim(toLowerCase(RawPlayers[p][k])))
                /\ step.locals.corrections[p][k].words = << d >>

\* the raw word ct is replaced by cat, and a raw snapshot with the
\* two-letter dictionary word at has been fused too
C7_Witness ==
  /\ wpc = "replied"
  /\ RawPlayers = << << W_ct >> >>
  /\ FusedPlayers = << << W_cat >> >>
  /\ W_at \in dictSet
  /\ \E c \in DOMAIN confidenceTracker : c = W_act

\* the handler has answered the message with { ok: true, result }
Answered == wpc = "replied" /\ reply.ok

\* C8: every raw word of at least 3 letters that is in the dictionary is in
\* the fused list of the player that reported it.
C8_DictionaryWordsAccepted ==
  Answered =>
    \A p \in 1..Len(RawPlayers) : \A k \in 1..Len(RawPlayers[p]) :
      (Len(RawPlayers[p][k]) >= 3 /\ RawPlayers[p][k] \in dictSet) =>
        /\ p <= Len(FusedPlayers)
        /\ RawPlayers[p][k] \in Range(FusedPlayers[p])

\* one letter substituted, inserted or deleted, or none
WithinOneEdit(a, b) ==
  \/ a = b
  \/ Len(a) = Len(b) /\ Cardinality({ i \in 1..Len(a) : a[i] # b[i] }) = 1
  \/ abs(Len(a) - Len(b)) = 1 /\ removingOneLetterMatches(a, b)

\* C9: a word of at least 3 letters of the previous fused state that is
\* missing from the current raw snapshot, is neither inside nor around a
\* corrected word, has no raw word within one edit of it, and was in the
\* raw snapshot handled just before, is in the fused snapshot.
C9_TransientDisappearanceSmoothed ==
  Answered =>
    \A P \in PreviousFusedWords :
      ( /\ Len(P) >= 3
        /\ P \notin CurrentRawWords
        /\ \A c \in CorrectedWords : ~includes(c, P) /\ ~includes(P, c)
        /\ \A r \in CurrentRawWords : ~WithinOneEdit(P, r)
        /\ P \in PrecedingRawWords )
      => P \in FusedWords

\* C10: a word absent from the current raw snapshot and from the one handled
\* just before, and not made by correcting a current raw word, is not in the
\* fused snapshot; and when the previous fused state held it, the journal
\* has a word_removed event for it on this snapshot.
C10_DroppedAfterLastSighting ==
  Answered =>
    \A w \in PreviousFusedWords \cup FusedWords :
      ( /\ w \notin CurrentRawWords
        /\ w \notin PrecedingRawWords
        /\ w \notin CorrectedWords )
      => /\ w \notin FusedWords
         /\ w \in PreviousFusedWords =>
              \E e \in 1..Len(step.events) :
                /\ step.events[e].eventType = WORD_REMOVED
                /\ step.events[e].word = w

\* the words the restoration loop pushed back on the first player's list
RestoredWords ==
  { step.locals.allCorrectedWords[k] :
      k \in (Len(step.locals.filteredAllWords) + 1)..Len(step.locals.allCorrectedWords) }

\* word_added and word_removed events of the snapshot just handled, as
\* << eventType, word >> pairs
JournalPairs ==
  { << step.events[e].eventType, step.events[e].word >> : e \in 1..Len(step.events) }

\* C11: a word of the previous fused state that is missing from the current
\* raw snapshot is not restored when a current raw word is one edit away
\* from it (one letter substituted, inserted or deleted); and with previous
\* fused words [cat] and raw words [car] the fused words are exactly [car]
\* and the journal has word_removed cat and word_added car.
C11_NeighbourBlocksRestoration ==
  Answered =>
    /\ \A P \in PreviousFusedWords :
         ( /\ P \notin CurrentRawWords
           /\ \E r \in CurrentRawWords : r # P /\ WithinOneEdit(P, r) )
         => P \notin RestoredWords
    /\ ( /\ step.previousFusedState.words = << W_cat >>
         /\ RawPlayers = << << W_car >> >> )
       => /\ FusedPlayers = << << W_car >> >>
          /\ JournalPairs = { << WORD_REMOVED, W_cat >>, << WORD_ADDED, W_car >> }

\* the raw snapshot just handled has the per-player words and the loose
\* letters of the previous fused state
RawEqualsPreviousFused ==
  /\ Answered
  /\ step.lastState.defined
  /\ RawPlayers = step.lastState.wordsPerPlayer
  /\ msg.payload.availableLetters = step.previousFusedState.availableLetters

\* C12: when the raw snapshot has exactly the per-player words and loose
\* letters of the previous fused state, the fused output equals that state
\* and the journal has no event for the snapshot.
C12_IdempotentOnOwnOutput ==
  RawEqualsPreviousFused =>
    /\ FusedPlayers = step.lastState.wordsPerPlayer
    /\ step.fused.availableLetters = step.previousFusedState.availableLetters
    /\ step.events = << >>


\* how often word w is in the sequence ws
CountIn(w, ws) == Cardinality({ k \in 1..Len(ws) : ws[k] = w })

\* the words stored for player index i when the handler started
StoredWords(i) == previousWordsOf(step.previousWordsByPlayer, i)

\* the number of events of one type the snapshot's journal has for a word
\* under the playerId of player index i
EventCount(type, i, w) ==
  Cardinality({ e \in 1..Len(step.events) :
                  /\ step.events[e].eventType = type
                  /\ step.events[e].playerId = << "player_", i >>
                  /\ step.events[e].word = w })

Max0(n) == IF n > 0 THEN n ELSE 0

\* C13: for each player index i of the fused snapshot and every word w, the
\* journal has max(0, count_current(w) - count_previous(w)) word_added events
\* and max(0, count_previous(w) - count_current(w)) word_removed events under
\* playerId "player_" + i, the counts being those of player i's fused words
\* and of the words stored for player i from the previous snapshot.
C13_JournalIsMultisetDifference ==
  Answered =>
    \A i \in 0..(Len(FusedPlayers) - 1) :
      \A w \in Range(toLowerCaseAll(FusedPlayers[i + 1])) \cup Range(StoredWords(i)) :
        LET current == CountIn(w, toLowerCaseAll(FusedPlayers[i + 1]))
            previous == CountIn(w, StoredWords(i))
        IN  /\ EventCount(WORD_ADDED, i, w) = Max0(current - previous)
            /\ EventCount(WORD_REMOVED, i, w) = Max0(previous - current)

\* ------------------------------------------------------------------------
\* Properties of the journal and the aggregator (checked under JournalSpec)
\* ------------------------------------------------------------------------

\* by player index ascending, and within a player no word_removed event
\* before a word_added event
EventsOrdered(events) ==
  \A e \in 1..Len(events) : \A f \in (e + 1)..Len(events) :
    /\ events[e].playerIndex <= events[f].playerIndex
    /\ events[e].playerIndex = events[f].playerIndex =>
         ~(events[e].eventType = WORD_REMOVED /\ events[f].eventType = WORD_ADDED)

\* C14: the events emitted for one snapshot are ordered by player index
\* ascending, within one player every word_added before every word_removed;
\* and the log lines followed by the event buffer are, after the snapshot,
\* what they were before it followed by the snapshot's events in that order.
C14_JournalOrder ==
  [][ posted' = posted + 1 =>
        /\ EventsOrdered(step'.events)
        /\ aggregator'.logFile \o aggregator'.eventBuffer
             = aggregator.logFile \o aggregator.eventBuffer \o step'.events ]_vars

\* a snapshot with word_added and word_removed events of two players, in
\* the middle of which the buffer of 10 events was written to the log
C14_Witness ==
  /\ step.handled
  /\ \E e \in 1..Len(step.events) : \E f \in 1..Len(step.events) :
       /\ step.events[e].playerIndex = 0
       /\ step.events[e].eventType = WORD_REMOVED
       /\ step.events[f].playerIndex = 1
       /\ step.events[f].eventType = WORD_ADDED
  /\ Len(aggregator.logFile) = bufferSize
  /\ aggregator.eventBuffer # << >>
  /\ Len(aggregator.eventBuffer) < Len(step.events)

RECURSIVE SumValues(_)
SumValues(obj) == IF obj = << >> THEN 0 ELSE Head(obj).value + SumValues(Tail(obj))

\* C15: every player aggregate has at most totalWords unique words, its
\* wordsByLength counts sum to totalWords, and common + medium + rare is
\* totalWords.
C15_AggregateTotals ==
  \A k \in 1..Len(aggregator.playerStats) :
    LET stats == aggregator.playerStats[k].value
    IN  /\ Len(stats.uniqueWords.items) <= stats.totalWords
        /\ SumValues(stats.wordsByLength) = stats.totalWords
        /\ stats.wordsByFrequency.common + stats.wordsByFrequency.medium
             + stats.wordsByFrequency.rare = stats.totalWords

\* C19: a game-state request that throws in the worker is answered with
\* ok:false and leaves every process-wide tracker as it was before the
\* request: previous fused state, visibility ring, confidence entries, free
\* list ring, per-player previous-word sets, subset cache and aggregator.
C19_FailedRequestChangesNothing ==
  [][ (wpc = "posted" /\ wpc' = "replied" /\ step'.threw) =>
        /\ ~reply'.ok
        /\ UNCHANGED << previousFusedState, wordVisibilityTracker,
                        confidenceTracker, freeListTracker,
                        previousWordsByPlayer, subsetCache, aggregator >> ]_vars

\* C21: a request in delta form is applied to the last state: when the last
\* full snapshot left one player holding the words W, the request
\* { addedWords: A, removedWords: R, availableLetters: L } is answered with
\* one player whose words are W minus R plus A, and with the loose letters L.
C21_DeltaAppliedToLastState ==
  ( /\ Answered
    /\ "addedWords" \in DOMAIN msg.payload
    /\ step.lastState.defined
    /\ Len(step.lastState.wordsPerPlayer) = 1 )
  =>
    LET W == step.lastState.wordsPerPlayer[1]
        A == msg.payload.addedWords
        R == IF "removedWords" \in DOMAIN msg.payload
               THEN msg.payload.removedWords ELSE << >>
    IN  /\ Len(reply.result.players) = 1
        /\ \A w \in Range(W) \cup Range(A) :
             CountIn(w, reply.result.players[1]) =
               Max0(CountIn(w, W) - CountIn(w, R)) + CountIn(w, A)
        /\ reply.result.availableLetters = msg.payload.availableLetters

\* the targets processGameState enumerated for the request, in its order
Enumerated == step.enumerated

\* 1.5 * (Zipf / 8) + 1.0 * (length / 15) in 960ths, the Zipf score of the
\* table being in quarters and a word missing from the table counting as 0
ClaimedScore(w) ==
  45 * (IF w \in DOMAIN frequencies THEN frequencies[w] ELSE 0) + 64 * Len(w)

RawLooseLetters ==
  IF "availableLetters" \in DOMAIN msg.payload THEN msg.payload.availableLetters
  ELSE IF "available" \in DOMAIN msg.payload THEN msg.payload.available
  ELSE << >>

\* C24: after every fuseData call the fused availableLetters are the loose
\* letters of the raw snapshot of that call in lowercase with everything but
\* a-z removed, whatever the earlier snapshots and the trackers hold.
C24_LooseLettersMemoryless ==
  (wpc = "replied" /\ step.handled) =>
    step.fused.availableLetters =
      SelectSeq([ k \in 1..Len(RawLooseLetters) |-> LowerTable[RawLooseLetters[k]] ],
                LAMBDA ch : ch \in LowerChars)

\* a snapshot with C-aRt loose fused after one with o, r loose
C24_Witness ==
  /\ wpc = "replied"
  /\ step.handled
  /\ step.previousFusedState.defined
  /\ step.previousFusedState.availableLetters = W_or
  /\ RawLooseLetters = << "C", "-", "a", "R", "t" >>
  /\ step.fused.availableLetters = W_cart

\* ------------------------------------------------------------------------
\* Properties of the aggregate file (checked under JournalSpec)
\* ------------------------------------------------------------------------

\* the worker was started again and has logged no snapshot since
Restarted == "restarted" \in DOMAIN step

\* C25: after saveAggregate and a restart that reloads the file, every
\* player aggregate has the saved totals and the saved unique words as a
\* set; word_added events logged later for those players keep
\* uniqueCount <= totalWords and both sums equal to totalWords.
C25_AggregateRoundTrip ==
  /\ (Restarted /\ aggregateFile.exists /\ ~aggregateFile.torn) =>
       \A k \in 1..Len(aggregateFile.playerStats) :
         LET saved == aggregateFile.playerStats[k].value
             id == aggregateFile.playerStats[k].key
         IN  /\ objHas(aggregator.playerStats, id)
             /\ objGet(aggregator.playerStats, id).totalWords = saved.totalWords
             /\ objGet(aggregator.playerStats, id).wordsByLength = saved.wordsByLength
             /\ objGet(aggregator.playerStats, id).wordsByFrequency = saved.wordsByFrequency
             /\ objGet(aggregator.playerStats, id).uniqueWords.isSet
             /\ Range(objGet(aggregator.playerStats, id).uniqueWords.items) =
                  Range(saved.uniqueWords.items)
  /\ \A k \in 1..Len(aggregator.playerStats) :
       LET stats == aggregator.playerStats[k].value
       IN  /\ stats.uniqueWords.isSet
           /\ Len(stats.uniqueWords.items) <= stats.totalWords
           /\ SumValues(stats.wordsByLength) = stats.totalWords
           /\ stats.wordsByFrequency.common + stats.wordsByFrequency.medium
                + stats.wordsByFrequency.rare = stats.totalWords

\* C26: after every logEvent call the event buffer holds fewer than 10
\* events, whether the writes to the event log succeed or fail (a failed
\* write empties the buffer, dropping its events).
C26_BufferBelowBatchSize ==
  Len(aggregator.eventBuffer) < 10

\* C27: vocabulary_aggregate.json holds at every moment the complete
\* aggregate it held before or the complete aggregate saveAggregate writes,
\* also when the process stops during saveAggregate.
C27_AggregateFileAtomic ==
  [][ \/ aggregateFile' = aggregateFile
      \/ aggregateFile' = saveAggregate(aggregator, aggregateFile, TRUE, TRUE).file ]_vars

\* ------------------------------------------------------------------------
\* Requests that only read (checked under ReadSpec)
\* ------------------------------------------------------------------------

\* the step is the handler answering an image, analytics or player-stats
\* request
AnswersReadRequest == "answered" \in DOMAIN step' /\ step' # step

\* C40: a request of kind analytics, player-stats or image leaves the
\* solver-owned state as it was: the aggregator's tracked players, their
\* counters and its word-frequency map, the fusion trackers, the previous
\* word sets and the subset cache, whatever the playerId asked for, one that
\* has never played included.
C40_ReadRequestsChangeNothing ==
  [][ AnswersReadRequest =>
        /\ aggregator'.playerStats = aggregator.playerStats
        /\ aggregator'.wordFrequency = aggregator.wordFrequency
        /\ previousFusedState' = previousFusedState
        /\ freeListTracker' = freeListTracker
        /\ confidenceTracker' = confidenceTracker
        /\ wordVisibilityTracker' = wordVisibilityTracker
        /\ previousWordsByPlayer' = previousWordsByPlayer
        /\ subsetCache' = subsetCache ]_vars


\* ------------------------------------------------------------------------
\* Properties of the server's worker queue (checked under ServerSpec)
\* ------------------------------------------------------------------------

Settled(r) == http[r] \in { "resolved", "rejected" }

\* C16: at most one message is posted to the worker and not yet answered (it
\* is in the worker's inbox, or its reply or error has not been handled by
\* the main thread); the message in the inbox is that of the oldest queued
\* request, and every request submitted before it has been answered.
C16_OneMessageInFlight ==
  /\ Len(inbox) + Len(toMain) <= 1
  /\ \A k \in 1..Len(inbox) :
       /\ workerQueue # << >>
       /\ inbox[k].payload = Head(workerQueue).id
       /\ \A q \in 1..(inbox[k].payload - 1) : Settled(q)

\* request 2 was queued behind request 1 and is posted, with request 3
\* queued behind it, after the reply to request 1 was taken
C16_Witness ==
  /\ http[1] = "resolved"
  /\ Len(inbox) = 1
  /\ inbox[1].payload = 2
  /\ Len(workerQueue) = 2

\* C17: the data broadcast of a snapshot carries the worker's result for that
\* snapshot, the data broadcasts are in the order in which the snapshots
\* were submitted, and a move-log broadcast of a snapshot comes after the
\* data broadcast of that snapshot.
C17_BroadcastOrder ==
  /\ \A i \in 1..Len(emitted) :
       emitted[i].topic = "data" => emitted[i].message = emitted[i].request
  /\ \A i \in 1..Len(emitted) : \A j \in 1..Len(emitted) :
       ( /\ emitted[i].topic = "data"
         /\ emitted[j].topic = "data"
         /\ emitted[i].request < emitted[j].request ) => i < j
  /\ \A j \in 1..Len(emitted) :
       emitted[j].topic = "move-log" =>
         \E i \in 1..(j - 1) :
           emitted[i].topic = "data" /\ emitted[i].request = emitted[j].request

\* the snapshots of requests 1 and 2 were both waiting for the worker, and
\* both have been broadcast while request 3 waits
C17_Witness ==
  /\ Len(emitted) = 2
  /\ emitted[1].request = 1
  /\ emitted[2].request = 2
  /\ http[3] = "waiting"

\* C18: every request handed to runWorker is eventually resolved or rejected.
C18_EveryRequestSettled ==
  \A r \in Requests : (http[r] = "waiting") ~> Settled(r)

\* C20: once the route has answered a snapshot, a move-log message with
\* exactly the journal events the worker emitted for the snapshot has been
\* broadcast when there are such events, and none when there is none.
C20_MoveLogBroadcast ==
  \A r \in Requests :
    http[r] = "resolved" =>
      IF journalled[r] # << >>
        THEN \E i \in 1..Len(emitted) :
               /\ emitted[i].topic = "move-log"
               /\ emitted[i].request = r
               /\ emitted[i].entries = journalled[r]
        ELSE \A i \in 1..Len(emitted) :
               ~(emitted[i].topic = "move-log" /\ emitted[i].request = r)

\* C37: a request's promise is settled with the answer the worker computed
\* from that request's message (the reply to it, or the error raised while
\* it was handled), never with the answer to another request; and no
\* request is posted to the worker more than once.
C37_OwnAnswerPostedOnce ==
  \A r \in Requests :
    /\ promises[r].posts <= 1
    /\ Settled(r) => promises[r].settledBy = r
    /\ ~Settled(r) => promises[r].settledBy = 0

\* every request of the run was posted once and settled by its own answer,
\* request 1 by a reply and request 2 by an error reply or the worker's death
C37_Witness ==
  /\ \A r \in Requests : Settled(r) /\ promises[r].posts = 1 /\ promises[r].settledBy = r
  /\ http[1] = "resolved"
  /\ http[2] = "rejected"
  /\ MaxRequests >= 3
\* ------------------------------------------------------------------------
\* Properties of the correction rules and the trackers (checked under
\* WorkerSpec)
\* ------------------------------------------------------------------------

\* the per-player word lists of the fused snapshot handled just before
PreviousFusedPlayers == step.lastState.wordsPerPlayer

\* the same words, each as often in s as in t
SameBag(s, t) == \A w \in Range(s) \cup Range(t) : CountIn(w, s) = CountIn(w, t)

\* the raw word at position k of player p, lowercase and trimmed
RawWordAt(p, k) == trim(toLowerCase(RawPlayers[p][k]))

\* the raw lists with the word at position k of player p replaced by a, b
WithPairAt(p, k, a, b) ==
  [ RawPlayers EXCEPT ![p] =
      SubSeq(@, 1, k - 1) \o << a, b >> \o SubSeq(@, k + 1, Len(@)) ]

\* C31: when a raw word of player p that is not in the dictionary is a
\* followed by b, two words player p held in the previous fused state and
\* both missing from the raw snapshot, the correction pass puts a, b in its
\* place; and when the snapshot is otherwise the previous fused state, the
\* fused lists hold the words of the previous fused state, player by
\* player, and the journal has no event.
C31_MergedPairSplit ==
  (Answered /\ step.lastState.defined) =>
    \A p \in 1..Len(RawPlayers) : \A k \in 1..Len(RawPlayers[p]) :
      p <= Len(PreviousFusedPlayers) =>
        \A a, b \in Range(PreviousFusedPlayers[p]) :
          ( /\ RawWordAt(p, k) = a \o b
            /\ RawWordAt(p, k) \notin dictSet
            /\ a \notin CurrentRawWords
            /\ b \notin CurrentRawWords )
          => /\ step.locals.corrections[p][k].words = << a, b >>
             /\ ( /\ Len(RawPlayers) = Len(PreviousFusedPlayers)
                  /\ \A q \in 1..Len(RawPlayers) :
                       SameBag(WithPairAt(p, k, a, b)[q], PreviousFusedPlayers[q]) )
                => /\ Len(FusedPlayers) = Len(PreviousFusedPlayers)
                   /\ \A q \in 1..Len(FusedPlayers) :
                        SameBag(FusedPlayers[q], PreviousFusedPlayers[q])
                   /\ step.events = << >>

\* player 0 held cat and dog, the raw snapshot has catdog instead, and the
\* fused snapshot has cat and dog again
C31_Witness ==
  /\ Answered
  /\ PreviousFusedPlayers = << << W_cat, W_dog >> >>
  /\ RawPlayers = << << W_catdog >> >>
  /\ step.locals.disappearedWords = << W_cat, W_dog >>
  /\ FusedPlayers = << << W_cat, W_dog >> >>
  /\ step.events = << >>

\* the words of the previous fused state that player q has lost in the raw
\* snapshot
MissingOf(q) ==
  { P \in Range(PreviousFusedPlayers[q]) : P \notin Range(toLowerCaseAll(RawPlayers[q])) }

\* the raw snapshot is the previous fused state with some words missing,
\* and restoration has brought every missing word back
TransientDisappearance ==
  /\ Answered
  /\ step.lastState.defined
  /\ Len(RawPlayers) = Len(PreviousFusedPlayers)
  /\ \A q \in 1..Len(RawPlayers) :
       Range(toLowerCaseAll(RawPlayers[q])) \subseteq Range(PreviousFusedPlayers[q])
  /\ \E q \in 1..Len(RawPlayers) : MissingOf(q) # {}
  /\ \A q \in 1..Len(RawPlayers) : MissingOf(q) \subseteq RestoredWords

\* C33: a restored word is in the fused list of a player only if that
\* player held it in the previous fused state; and when words of the
\* previous fused state are missing from the raw snapshot and all of them
\* are restored, every player's fused word set is the previous one and the
\* journal has no event.
C33_RestoredToPreviousHolder ==
  (Answered /\ step.lastState.defined) =>
    /\ \A P \in RestoredWords : \A q \in 1..Len(FusedPlayers) :
         P \in Range(FusedPlayers[q]) =>
           /\ q <= Len(PreviousFusedPlayers)
           /\ P \in Range(PreviousFusedPlayers[q])
    /\ TransientDisappearance =>
         /\ \A q \in 1..Len(FusedPlayers) :
              Range(FusedPlayers[q]) = Range(PreviousFusedPlayers[q])
         /\ step.events = << >>

\* the words the correction rules produced from the raw words of the snapshot
ModifiedWords == Range(step.locals.modifiedWords)

\* the corrected words the confidence filter let through
KeptByFilter == Range(step.locals.filteredAllWords)

\* the raw snapshot has a dictionary word one edit away from M
HasRealNeighbour(M) ==
  \E R \in CurrentRawWords : R \in dictSet /\ R # M /\ WithinOneEdit(M, R)

\* C34: a word M produced by a correction rule in the current step is
\* discarded by the confidence filter when the raw snapshot has a
\* dictionary word one edit away from M, and is kept otherwise, whatever
\* the confidence tracker holds for M from earlier steps.
C34_VetoByRealNeighbourOnly ==
  Answered =>
    \A M \in ModifiedWords :
      /\ (HasRealNeighbour(M) /\ M \notin CurrentRawWords) => M \notin KeptByFilter
      /\ ~HasRealNeighbour(M) => M \in KeptByFilter

\* the loose letters of the snapshot handled just before
PreviousLooseLetters == Range(step.previousFusedState.availableLetters)

\* the dictionary words obtained from w by inserting one of those letters
LooseInsertionsOf(w) ==
  { insertAt(w, pos, ch) : pos \in 0..Len(w), ch \in PreviousLooseLetters } \cap dictSet

\* rule 6 is the rule that decides on the raw word w: w is shorter than 3
\* letters, or no rule before it applies
AddOneLetterDecides(w) ==
  \/ Len(w) < 3
  \/ /\ ~checkCombinedWithWord(w, step.locals.disappearedWords).found
     /\ ~checkSplitIntoTwoWords(w, step.locals.disappearedWords).found
     /\ ~checkRecursiveSplit(w, 3).found
     /\ ~checkOneLetterOff(w, step.locals.previousWords).found

\* C35: when a raw word that is not in the dictionary becomes a dictionary
\* word by inserting one letter of the previous snapshot's loose letters,
\* and rule 6 decides on it, the correction pass emits such an insertion.
C35_LooseLetterInsertionFirst ==
  Answered =>
    \A p \in 1..Len(RawPlayers) : \A k \in 1..Len(RawPlayers[p]) :
      ( /\ RawWordAt(p, k) \notin dictSet
        /\ AddOneLetterDecides(RawWordAt(p, k))
        /\ LooseInsertionsOf(RawWordAt(p, k)) # {} )
      => \E x \in LooseInsertionsOf(RawWordAt(p, k)) :
           step.locals.corrections[p][k].words = << x >>

\* the confidence map as the handler found it
ConfidencesBefore == step.wordConfidences

\* the words fuseData handed to the confidence update: the final words, and
\* among them those a correction produced
FinalWordSet ==
  { toLowerCase(step.locals.allCorrectedWords[k]) :
      k \in { n \in 1..Len(step.locals.allCorrectedWords) :
                Len(step.locals.allCorrectedWords[n]) >= 3 } }

ProducedByCorrection ==
  { toLowerCase(w) : w \in { m \in ModifiedWords : Len(m) >= 3 } }

\* C36: after a fusion step every tracked confidence is above 0 and at
\* most 1; a final word a correction produced has { 0.5, modified }; a final
\* word observed directly has min(1.0, previous + 0.25), 1.0 when it was not
\* tracked, and is not modified; a tracked word that is not final has lost
\* 0.1 and kept its flag, or is no longer tracked when that leaves 0; and
\* no other word is tracked.
C36_ConfidenceStepRule ==
  step.handled =>
    /\ \A w \in DOMAIN confidenceTracker :
         /\ dLess(D_0, confidenceTracker[w].confidence)
         /\ dLessEq(confidenceTracker[w].confidence, D_1)
    /\ DOMAIN confidenceTracker \subseteq FinalWordSet \cup DOMAIN ConfidencesBefore
    /\ \A w \in FinalWordSet :
         /\ w \in DOMAIN confidenceTracker
         /\ confidenceTracker[w] =
              IF w \in ProducedByCorrection
                THEN [ confidence |-> D_0_5, wasModified |-> TRUE ]
              ELSE IF w \in DOMAIN ConfidencesBefore
                THEN [ confidence |-> dMin1Add(ConfidencesBefore[w].confidence),
                       wasModified |-> FALSE ]
              ELSE [ confidence |-> D_1, wasModified |-> FALSE ]
    /\ \A w \in (DOMAIN ConfidencesBefore) \ FinalWordSet :
         IF dLessEq(dMax0Sub(ConfidencesBefore[w].confidence), D_0)
           THEN w \notin DOMAIN confidenceTracker
           ELSE /\ w \in DOMAIN confidenceTracker
                /\ confidenceTracker[w] =
                     [ confidence |-> dMax0Sub(ConfidencesBefore[w].confidence),
                       wasModified |-> ConfidencesBefore[w].wasModified ]

\* the word set of player index i in the fused snapshot just handled,
\* empty when the snapshot has no such player
FusedSetOf(i) ==
  IF i < Len(FusedPlayers) THEN Range(toLowerCaseAll(FusedPlayers[i + 1])) ELSE {}

\* the player indexes that have appeared in a snapshot so far
PlayersSeen ==
  0..((IF Len(previousWordsByPlayer) > Len(FusedPlayers)
         THEN Len(previousWordsByPlayer) ELSE Len(FusedPlayers)) - 1)

\* the word set of player index i obtained by replaying the journal's
\* word_added and word_removed events from the empty set
RECURSIVE ReplayedWords(_, _)
ReplayedWords(events, i) ==
  IF events = << >> THEN {}
  ELSE
    LET e == events[Len(events)]
        before == ReplayedWords(SubSeq(events, 1, Len(events) - 1), i)
    IN  IF e.playerIndex # i THEN before
        ELSE IF e.eventType = WORD_ADDED THEN before \cup { e.word }
        ELSE before \ { e.word }

\* C38: after a snapshot is handled, the set stored for every player index
\* seen so far is that player's word set in the fused snapshot, the empty
\* set when the snapshot has fewer players; and replaying the events of a
\* journal that started empty gives each player's word set in the fused
\* snapshot.
C38_StoredSetsFollowSnapshot ==
  Answered =>
    \A i \in PlayersSeen :
      /\ Range(previousWordsOf(previousWordsByPlayer, i)) = FusedSetOf(i)
      /\ aggregateFile = NoAggregateFile =>
           ReplayedWords(aggregator.logFile \o aggregator.eventBuffer, i) = FusedSetOf(i)

\* the keys of an object of the reply
KeysOf(obj) == { obj[k].key : k \in 1..Len(obj) }

\* C39: in every game-state result the worker posts, lettersToSteal and
\* recommended_words have the same keys.
C39_SameKeys ==
  Answered =>
    KeysOf(reply.result.lettersToSteal) = KeysOf(reply.result.recommended_words)

\* ------------------------------------------------------------------------
\* Stability under constant input (checked under ReplaySpec)
\* ------------------------------------------------------------------------

\* C32: when the same raw snapshot is sent on every step, the fused lists
\* become constant and the journal falls silent for good. What a sending
\* yields is a function of the state the sending before left behind, so the
\* run must never come back to a state it has left behind before with a
\* change of the fused lists or a journal event in between: it would repeat
\* that change for ever.
C32_SettlesUnderConstantInput ==
  feed.resending =>
    \A i, j \in 1..Len(feed.sendings) :
      (i < j /\ feed.sendings[i].after = feed.sendings[j].after) =>
        \A k \in (i + 1)..j :
          /\ feed.sendings[k].events = << >>
          /\ feed.sendings[k].fused = feed.sendings[i].fused

=============================================================================
